---- MODULE Spec2Model ----
(***************************************************************************)
(* A model of Cram (LLNL/cram): the container reader and the delta codec   *)
(* of src/c/libcram/cram_util.c (cram_file.c of the library), and the      *)
(* MPI_Init wrapper and the communicator interceptors of                   *)
(* src/c/libcram/cram.w.                                                   *)
(*                                                                         *)
(* Strings are sequences of byte values; a C int is 4 big-endian bytes on  *)
(* the wire.  Offsets and array indexes are 0-based as in the C code.      *)
(***************************************************************************)
EXTENDS Integers, Sequences, FiniteSets, TLC

\* ------------------------------------------------------------------------
\* Bounds of the model
\* ------------------------------------------------------------------------
\* largest number of jobs packed in a container
MaxJobs == 2
\* largest num_procs of one job
MaxProcs == 2
\* largest size of MPI_COMM_WORLD
MaxRanks == 3

\* ------------------------------------------------------------------------
\* Program constants
\* ------------------------------------------------------------------------
\* #define MAGIC 0x6372616d
MAGIC == 1668440429
\* #define CRAM_TAG 7675
CRAM_TAG == 7675
\* #define MAX_CONCURRENT_PEERS 512
MAX_CONCURRENT_PEERS == 512
\* #define LUSTRE_BUFFER_SIZE 2097152
LUSTRE_BUFFER_SIZE == 2097152
\* #define CRAM_DEFAULT_EXE "<exe>"
CRAM_DEFAULT_EXE == <<60, 101, 120, 101, 62>>

\* the value of a byte of malloc'ed memory that was never written
Uninit == -1

\* ------------------------------------------------------------------------
\* C strings and integers
\* ------------------------------------------------------------------------
Min(a, b) == IF a < b THEN a ELSE b

\* strcmp: sign of the first differing byte, the terminating NUL counting
\* as byte 0
RECURSIVE strcmp(_, _)
strcmp(a, b) ==
  IF a = <<>> /\ b = <<>> THEN 0
  ELSE IF a = <<>> THEN -1
  ELSE IF b = <<>> THEN 1
  ELSE IF Head(a) < Head(b) THEN -1
  ELSE IF Head(a) > Head(b) THEN 1
  ELSE strcmp(Tail(a), Tail(b))

\* ntohl of 4 bytes taken from memory, converted to int (two's complement)
ntohl(b) ==
  (IF b[1] >= 128 THEN b[1] - 256 ELSE b[1]) * 16777216
  + b[2] * 65536 + b[3] * 256 + b[4]

\* ------------------------------------------------------------------------
\* Job descriptors (cram_job_t).  num_args is Len(args) and num_env_vars
\* is Len(keys) = Len(values).
\* ------------------------------------------------------------------------
cram_job_t(np, wd, args, keys, values) ==
  [num_procs |-> np, working_dir |-> wd, args |-> args,
   keys |-> keys, values |-> values]

\* value of a key in a job's environment (the key must be present)
EnvValue(job, k) ==
  job.values[CHOOSE i \in 1..Len(job.keys) : job.keys[i] = k]

HasKey(job, k) == \E i \in 1..Len(job.keys) : job.keys[i] = k

\* ------------------------------------------------------------------------
\* The packer's output (the writer is the Python part of the repository):
\* the container layout.
\* ------------------------------------------------------------------------
\* int: 4 bytes, big-endian
EncInt(n) ==
  << (n \div 16777216) % 256, (n \div 65536) % 256,
     (n \div 256) % 256, n % 256 >>

\* string: int length, then the raw bytes, no trailing NUL
EncString(s) == EncInt(Len(s)) \o s

RECURSIVE EncStrings(_)
EncStrings(ss) ==
  IF ss = <<>> THEN <<>> ELSE EncString(Head(ss)) \o EncStrings(Tail(ss))

RECURSIVE EncPairs(_, _)
EncPairs(ks, vs) ==
  IF ks = <<>> THEN <<>>
  ELSE EncString(Head(ks)) \o EncString(Head(vs))
       \o EncPairs(Tail(ks), Tail(vs))

\* keys of the first job's environment that the job does not have, sorted
SubtractedOf(base, job) ==
  SelectSeq(base.keys, LAMBDA k : ~HasKey(job, k))

\* indexes of the job's variables that are new or differ from the first job
ChangedIdx(base, job) ==
  { i \in 1..Len(job.keys) :
      \/ ~HasKey(base, job.keys[i])
      \/ EnvValue(base, job.keys[i]) # job.values[i] }

RECURSIVE PickSeq(_, _, _)
PickSeq(s, idx, i) ==
  IF i > Len(s) THEN <<>>
  ELSE (IF i \in idx THEN <<s[i]>> ELSE <<>>) \o PickSeq(s, idx, i + 1)

ChangedKeysOf(base, job) == PickSeq(job.keys, ChangedIdx(base, job), 1)
ChangedValsOf(base, job) == PickSeq(job.values, ChangedIdx(base, job), 1)

\* a job record: num_procs, working_dir, args, subtracted keys, changed pairs
EncRecord(np, wd, args, subtracted, ckeys, cvals) ==
  EncInt(np) \o EncString(wd)
  \o EncInt(Len(args)) \o EncStrings(args)
  \o EncInt(Len(subtracted)) \o EncStrings(subtracted)
  \o EncInt(Len(ckeys)) \o EncPairs(ckeys, cvals)

\* record i of a job list: record 1 carries the whole environment as
\* changed pairs, later records the difference to the first job
RecordOf(js, i) ==
  IF i = 1
  THEN EncRecord(js[1].num_procs, js[1].working_dir, js[1].args,
                 <<>>, js[1].keys, js[1].values)
  ELSE EncRecord(js[i].num_procs, js[i].working_dir, js[i].args,
                 SubtractedOf(js[1], js[i]),
                 ChangedKeysOf(js[1], js[i]), ChangedValsOf(js[1], js[i]))

RECURSIVE SumProcs(_, _)
SumProcs(js, n) == IF n = 0 THEN 0 ELSE js[n].num_procs + SumProcs(js, n - 1)

RECURSIVE MaxRecord(_, _)
MaxRecord(js, n) ==
  IF n = 0 THEN 0
  ELSE LET m == MaxRecord(js, n - 1)
           l == Len(RecordOf(js, n))
       IN  IF l > m THEN l ELSE m

RECURSIVE EncRecords(_, _)
EncRecords(js, i) ==
  IF i > Len(js) THEN <<>>
  ELSE EncInt(Len(RecordOf(js, i))) \o RecordOf(js, i) \o EncRecords(js, i + 1)

\* the whole container: 20-byte header, then the length-prefixed records
EncContainer(js) ==
  EncInt(MAGIC) \o EncInt(1) \o EncInt(Len(js))
  \o EncInt(SumProcs(js, Len(js))) \o EncInt(MaxRecord(js, Len(js)))
  \o EncRecords(js, 1)

\* ------------------------------------------------------------------------
\* Reading a job record from a buffer
\* ------------------------------------------------------------------------
\* buf_read_int: the int at *offset, *offset += sizeof(int).  A read
\* outside the buffer or of bytes never written is undefined (ub).
buf_read_int(buf, offset) ==
  IF offset < 0 \/ offset + 4 > Len(buf)
  THEN [ub |-> TRUE, val |-> 0, off |-> offset + 4]
  ELSE LET b == SubSeq(buf, offset + 1, offset + 4)
       IN  IF \E i \in 1..4 : b[i] = Uninit
           THEN [ub |-> TRUE, val |-> 0, off |-> offset + 4]
           ELSE [ub |-> FALSE, val |-> ntohl(b), off |-> offset + 4]

\* strnlen(&buf[from], size) within the buffer: the bytes before the first
\* NUL, at most size of them.  size is a size_t, so a negative int is a
\* count that is never used up.
RECURSIVE strnlen(_, _, _)
strnlen(buf, from, size) ==
  IF size = 0 \/ from < 0 \/ from >= Len(buf) THEN 0
  ELSE IF buf[from + 1] = 0 THEN 0
  ELSE 1 + strnlen(buf, from + 1, size - 1)

\* the copy of len bytes that strndup(&buf[from], size) returns.  The scan
\* is undefined (ub) when it starts outside the buffer, runs off the end of
\* the buffer before size bytes or a NUL, or reads bytes never written.
Duplicate(buf, from, size, len) ==
  IF \/ from < 0 \/ from > Len(buf)
     \/ (len # size /\ from + len >= Len(buf))
     \/ \E i \in 1..len : buf[from + i] = Uninit
  THEN [ub |-> TRUE, val |-> <<>>]
  ELSE [ub |-> FALSE, val |-> SubSeq(buf, from + 1, from + len)]

\* strndup(&buf[from], size): at most size bytes, stopping at a NUL
strndup(buf, from, size) ==
  Duplicate(buf, from, size, strnlen(buf, from, size))

\* the string of a length prefix that was read
StringAt(buf, size) ==
  IF size.ub THEN [ub |-> TRUE, val |-> <<>>, off |-> size.off]
  ELSE [ub |-> strndup(buf, size.off, size.val).ub,
        val |-> strndup(buf, size.off, size.val).val,
        off |-> size.off + size.val]

\* buf_read_string: length prefix, then the bytes; *offset += size
buf_read_string(buf, offset) == StringAt(buf, buf_read_int(buf, offset))

\* for (i < n) arr[i] = buf_read_string(...)
RECURSIVE ReadStrings(_, _, _)
ReadStrings(buf, offset, n) ==
  IF n <= 0 THEN [ub |-> FALSE, vals |-> <<>>, off |-> offset]
  ELSE LET s == buf_read_string(buf, offset)
       IN  IF s.ub THEN [ub |-> TRUE, vals |-> <<>>, off |-> s.off]
           ELSE LET rest == ReadStrings(buf, s.off, n - 1)
                IN  [ub |-> rest.ub, vals |-> <<s.val>> \o rest.vals,
                     off |-> rest.off]

\* for (i < n) { keys[i] = buf_read_string(...); vals[i] = buf_read_string(...) }
RECURSIVE ReadPairs(_, _, _)
ReadPairs(buf, offset, n) ==
  IF n <= 0 THEN [ub |-> FALSE, keys |-> <<>>, vals |-> <<>>, off |-> offset]
  ELSE LET k == buf_read_string(buf, offset)
           v == buf_read_string(buf, k.off)
       IN  IF k.ub \/ v.ub
           THEN [ub |-> TRUE, keys |-> <<>>, vals |-> <<>>, off |-> v.off]
           ELSE LET rest == ReadPairs(buf, v.off, n - 1)
                IN  [ub |-> rest.ub, keys |-> <<k.val>> \o rest.keys,
                     vals |-> <<v.val>> \o rest.vals, off |-> rest.off]

\* ------------------------------------------------------------------------
\* Delta decoding
\* ------------------------------------------------------------------------
\* The object bsearch hands to its comparator for slot i of a char* array is
\* the address of the slot.  strcmp, cast to the comparator type, therefore
\* compares the key with the bytes of the slot itself, which hold a pointer:
\* modelled as a string of bytes that no environment key is made of.
SlotBytes(sorted_array, i) == <<128 + i, 255, 255>>

\* the null pointer
NULL == [null |-> TRUE]

\* bsearch(string, sorted_array, num_elts, sizeof(char*), strcmp):
\* the index of a slot the comparator reports equal, or NULL
bsearch(string, sorted_array, num_elts) ==
  LET hits == { i \in 0..(num_elts - 1) :
                  strcmp(string, SlotBytes(sorted_array, i)) = 0 }
  IN  IF hits = {} THEN NULL ELSE [index |-> CHOOSE i \in hits : TRUE]

\* NULL - sorted_array for an array that malloc returned: not 0
NullMinus(sorted_array) == -1 - Len(sorted_array)

\* index_of: pos - sorted_array
index_of(num_elts, sorted_array, string) ==
  LET pos == bsearch(string, sorted_array, num_elts)
  IN  IF pos = NULL THEN NullMinus(sorted_array) ELSE pos.index

\* first loop of decompress: the changed keys with a non-zero index_of
RECURSIVE NumOverlap(_, _, _)
NumOverlap(base, changed_keys, i) ==
  IF i >= Len(changed_keys) THEN 0
  ELSE (IF index_of(Len(base.keys), base.keys, changed_keys[i + 1]) # 0
        THEN 1 ELSE 0)
       + NumOverlap(base, changed_keys, i + 1)

\* the merge loop of decompress; s = [bx, cx, mx, keys, values] with
\* jx = Len(s.keys).  Reading base->keys[bx] with bx >= base->num_env_vars,
\* or missing[mx] outside the array, is undefined (ub).
RECURSIVE MergeLoop(_, _, _, _, _, _, _)
MergeLoop(base, num_missing, missing, changed_keys, changed_vals, n, s) ==
  LET num_changed == Len(changed_keys)
      bxOk == s.bx < Len(base.keys)
      bkey == base.keys[s.bx + 1]
      ckey == changed_keys[s.cx + 1]
      Again(t) == MergeLoop(base, num_missing, missing,
                            changed_keys, changed_vals, n, t)
      UB == [ub |-> TRUE, keys |-> s.keys, values |-> s.values]
  IN
  IF n < 0 THEN UB
  ELSE IF Len(s.keys) >= n
  THEN [ub |-> FALSE, keys |-> s.keys, values |-> s.values]
  ELSE IF s.cx < num_changed /\ ~bxOk THEN UB
  ELSE LET cmp == IF s.cx < num_changed THEN strcmp(bkey, ckey) ELSE -1
       IN
       IF cmp = 0
       THEN Again([s EXCEPT !.bx = @ + 1, !.cx = @ + 1,
                            !.keys = Append(@, ckey),
                            !.values = Append(@, changed_vals[s.cx + 1])])
       ELSE IF cmp < 0
       THEN IF s.mx < num_missing \/ num_missing < 0
            THEN IF ~bxOk \/ s.mx >= Len(missing) THEN UB
                 ELSE IF strcmp(bkey, missing[s.mx + 1]) = 0
                 THEN Again([s EXCEPT !.bx = @ + 1, !.mx = @ + 1])
                 ELSE Again([s EXCEPT !.bx = @ + 1,
                                      !.keys = Append(@, bkey),
                                      !.values = Append(@, base.values[s.bx + 1])])
            ELSE IF ~bxOk THEN UB
                 ELSE Again([s EXCEPT !.bx = @ + 1,
                                      !.keys = Append(@, bkey),
                                      !.values = Append(@, base.values[s.bx + 1])])
       ELSE Again([s EXCEPT !.cx = @ + 1,
                            !.keys = Append(@, ckey),
                            !.values = Append(@, changed_vals[s.cx + 1])])

\* decompress: the environment of a job from the base job's environment,
\* the subtracted keys and the changed pairs
decompress(base, num_missing, missing, changed_keys, changed_vals) ==
  LET num_overlap  == NumOverlap(base, changed_keys, 0)
      num_env_vars == Len(base.keys) + Len(changed_keys)
                      - num_overlap - num_missing
  IN  MergeLoop(base, num_missing, missing, changed_keys, changed_vals,
                num_env_vars,
                [bx |-> 0, cx |-> 0, mx |-> 0, keys |-> <<>>, values |-> <<>>])

\* the value a cram_job_t holds when no defined execution produced it
NoJob == cram_job_t(0, <<>>, <<>>, <<>>, <<>>)

\* cram_job_decompress, lines 942-945: num_procs and working_dir.  ub:
\* the decoding ran into undefined behaviour
DecodeHead(job_record) ==
  LET np == buf_read_int(job_record, 0)
      wd == buf_read_string(job_record, np.off)
  IN  [ub |-> np.ub \/ wd.ub, off |-> wd.off,
       num_procs |-> np.val, working_dir |-> wd.val]

\* lines 948-954: the arguments
DecodeArgs(job_record, h) ==
  LET na   == buf_read_int(job_record, h.off)
      args == ReadStrings(job_record, na.off, na.val)
  IN  [ub |-> h.ub \/ na.ub \/ args.ub, off |-> args.off,
       num_procs |-> h.num_procs, working_dir |-> h.working_dir,
       args |-> args.vals]

\* lines 958-972 without the test of base at line 963
DecodeSubtracted_unchecked(job_record, base, a) ==
  LET ns  == buf_read_int(job_record, a.off)
      sub == IF ns.val # 0
             THEN ReadStrings(job_record, ns.off, ns.val)
             ELSE [ub |-> FALSE, vals |-> <<>>, off |-> ns.off]
      ub  == a.ub \/ ns.ub
  IN  [ub |-> ub \/ sub.ub, abort |-> FALSE, off |-> sub.off,
       num_procs |-> a.num_procs, working_dir |-> a.working_dir,
       args |-> a.args, num_subtracted |-> ns.val, subtracted |-> sub.vals]

\* lines 958-972: the subtracted keys.  abort: there are some and no base,
\* PMPI_Abort(MPI_COMM_WORLD, 1) is called before they are read
DecodeSubtracted(job_record, base, a) ==
  LET ns  == buf_read_int(job_record, a.off)
      sub == IF ns.val # 0
             THEN ReadStrings(job_record, ns.off, ns.val)
             ELSE [ub |-> FALSE, vals |-> <<>>, off |-> ns.off]
      ub  == a.ub \/ ns.ub
      ab  == ~ub /\ ns.val # 0 /\ base = NULL
  IN  [ub |-> ub \/ (~ab /\ sub.ub), abort |-> ab, off |-> sub.off,
       num_procs |-> a.num_procs, working_dir |-> a.working_dir,
       args |-> a.args, num_subtracted |-> ns.val, subtracted |-> sub.vals]

\* lines 976-984: the changed pairs
DecodeChanged(job_record, s) ==
  LET nc  == buf_read_int(job_record, s.off)
      chg == ReadPairs(job_record, nc.off, nc.val)
  IN  [ub |-> s.ub \/ (~s.abort /\ (nc.ub \/ chg.ub)), abort |-> s.abort,
       num_procs |-> s.num_procs, working_dir |-> s.working_dir,
       args |-> s.args, num_subtracted |-> s.num_subtracted,
       subtracted |-> s.subtracted,
       changed_keys |-> chg.keys, changed_vals |-> chg.vals]

\* lines 986-1001: the environment, by decompress against the base or, for
\* the first job, the changed pairs themselves
DecodeEnv(base, c) ==
  IF c.ub THEN [ub |-> TRUE, abort |-> FALSE, job |-> NoJob]
  ELSE IF c.abort THEN [ub |-> FALSE, abort |-> TRUE, job |-> NoJob]
  ELSE IF base # NULL
  THEN LET env == decompress(base, c.num_subtracted, c.subtracted,
                             c.changed_keys, c.changed_vals)
       IN  IF env.ub THEN [ub |-> TRUE, abort |-> FALSE, job |-> NoJob]
           ELSE [ub |-> FALSE, abort |-> FALSE,
                 job |-> cram_job_t(c.num_procs, c.working_dir, c.args,
                                    env.keys, env.values)]
  ELSE [ub |-> FALSE, abort |-> FALSE,
        job |-> cram_job_t(c.num_procs, c.working_dir, c.args,
                           c.changed_keys, c.changed_vals)]

\* cram_job_decompress(job_record, base, job); base = NULL for the first
\* job.  Result: the job, ub when the decoding ran into undefined
\* behaviour, abort when PMPI_Abort(MPI_COMM_WORLD, 1) was called.
cram_job_decompress(job_record, base) ==
  DecodeEnv(base,
    DecodeChanged(job_record,
      DecodeSubtracted(job_record, base,
        DecodeArgs(job_record, DecodeHead(job_record)))))

\* ------------------------------------------------------------------------
\* The container reader (cram_file_t)
\* ------------------------------------------------------------------------
\* a cram_file_t; fd is "NULL" or "open", pos the position of the FILE*.
\* The fields of a cram_file_t that was not opened are never read.
NoFile ==
  [fd |-> "NULL", pos |-> 0, version |-> 0, num_jobs |-> 0,
   total_procs |-> 0, max_job_size |-> 0, cur_job_record_size |-> 0,
   cur_job_procs |-> 0, cur_job_id |-> 0]

\* file_read_int: one int from the FILE*; ok = FALSE is the exit(1) of a
\* short read
file_read_int(bytes, pos) ==
  IF pos + 4 > Len(bytes)
  THEN [ok |-> FALSE, val |-> 0, pos |-> Len(bytes)]
  ELSE [ok |-> TRUE, val |-> ntohl(SubSeq(bytes, pos + 1, pos + 4)),
        pos |-> pos + 4]

\* line 847: the check of the magic number
IsCramMagic_skipped(magic) == TRUE
IsCramMagic(magic) == magic = MAGIC

\* an environment variable that is not set (getenv returns NULL), a key
\* that is not set in an environment
Unset == <<0>>

\* isspace in the C locale
isspace(ch) == ch = 32 \/ (ch >= 9 /\ ch <= 13)

\* the digits of strtoll from position i on: the value and the number of
\* bytes of str that were read
RECURSIVE strtoll_digits(_, _, _)
strtoll_digits(str, i, acc) ==
  IF i <= Len(str) /\ str[i] >= 48 /\ str[i] <= 57
  THEN strtoll_digits(str, i + 1, acc * 10 + (str[i] - 48))
  ELSE [val |-> acc, end |-> i - 1]

\* strtoll(str, &endptr, 10): white space, an optional sign, digits.  end
\* is the offset of endptr in str; without a digit nothing is converted
\* and endptr is str.
strtoll(str) ==
  LET ws  == CHOOSE n \in 0..Len(str) :
               /\ \A i \in 1..n : isspace(str[i])
               /\ n = Len(str) \/ ~isspace(str[n + 1])
      sgn == IF ws < Len(str) /\ str[ws + 1] \in {43, 45} THEN 1 ELSE 0
      d   == strtoll_digits(str, ws + sgn + 1, 0)
  IN  IF d.end = ws + sgn THEN [val |-> 0, end |-> 0]
      ELSE [val |-> IF sgn = 1 /\ str[ws + 1] = 45 THEN 0 - d.val ELSE d.val,
            end |-> d.end]

\* no stream was opened: setvbuf was not called
NoBuffer == [size |-> 0, said |-> "setvbuf not called"]

\* get_cram_buffer_size with CRAM_BUFFER_SIZE = bufsize_string on the given
\* rank of MPI_COMM_WORLD: the size that is passed to setvbuf and what is
\* printed to stderr.  The size is the long long that strtoll returned; the
\* conversion to size_t keeps its bits.
get_cram_buffer_size(bufsize_string, rank) ==
  LET bufsize == strtoll(bufsize_string)
  IN  IF bufsize_string = Unset
      THEN [size |-> LUSTRE_BUFFER_SIZE, said |-> ""]
      ELSE IF bufsize_string # <<>> /\ bufsize.end = Len(bufsize_string)
      THEN [size |-> bufsize.val,
            said |-> IF rank = 0 THEN "Using CRAM_BUFFER_SIZE" ELSE ""]
      ELSE [size |-> LUSTRE_BUFFER_SIZE,
            said |-> IF rank = 0
                     THEN "Warning: Invalid value for CRAM_BUFFER_SIZE"
                     ELSE ""]

\* cram_file_open(filename, file) on a file of the given content, with
\* CRAM_BUFFER_SIZE = bufsize_string, called by the given rank.
\* ret is the return value, exit the exit(1) of file_read_int, errno the
\* errno the call leaves (fopen sets it when it fails), buffer what setvbuf
\* was called with.
cram_file_open(disk, errno, bufsize_string, rank) ==
  LET magic == file_read_int(disk.bytes, 0)
      ver   == file_read_int(disk.bytes, magic.pos)
      nj    == file_read_int(disk.bytes, ver.pos)
      tp    == file_read_int(disk.bytes, nj.pos)
      mj    == file_read_int(disk.bytes, tp.pos)
      buffer == get_cram_buffer_size(bufsize_string, rank)
      Fail(f)  == [ret |-> FALSE, exit |-> FALSE, errno |-> errno, file |-> f,
                   buffer |-> buffer]
      Exit1(f) == [ret |-> FALSE, exit |-> TRUE, errno |-> errno, file |-> f,
                   buffer |-> buffer]
      opened == [NoFile EXCEPT !.fd = "open"]
  IN
  IF ~disk.exists
  THEN [ret |-> FALSE, exit |-> FALSE, errno |-> 2, file |-> NoFile,
        buffer |-> NoBuffer]
  ELSE IF ~magic.ok THEN Exit1([opened EXCEPT !.pos = magic.pos])
  ELSE IF ~IsCramMagic(magic.val) THEN Fail([opened EXCEPT !.pos = magic.pos])
  ELSE IF ~ver.ok \/ ~nj.ok \/ ~tp.ok \/ ~mj.ok
  THEN Exit1([opened EXCEPT !.pos = mj.pos])
  ELSE [ret |-> TRUE, exit |-> FALSE, errno |-> errno, buffer |-> buffer,
        file |-> [fd |-> "open", pos |-> mj.pos, version |-> ver.val,
                  num_jobs |-> nj.val, total_procs |-> tp.val,
                  max_job_size |-> mj.val, cur_job_record_size |-> 0,
                  cur_job_procs |-> 0, cur_job_id |-> -1]]

\* cram_file_has_more_jobs with num_jobs for num_jobs - 1
cram_file_has_more_jobs_inclusive(file) == file.cur_job_id < file.num_jobs

\* cram_file_has_more_jobs
cram_file_has_more_jobs(file) == file.cur_job_id < file.num_jobs - 1

\* malloc(size): memory that was never written
malloc(size) == [i \in 1..size |-> Uninit]

\* memory after n bytes were stored at its start
Store(buf, data) ==
  data \o SubSeq(buf, Len(data) + 1, Len(buf))

\* cram_file_next_job(file, job_record) on a file of the given content.
\* ret is the return value, exit the exit(1) of file_read_int, ub a write
\* or read outside job_record.
cram_file_next_job(disk, file, job_record) ==
  LET size  == file_read_int(disk.bytes, file.pos)
      left  == Len(disk.bytes) - size.pos
      \* fread takes a size_t count: a negative int asks for everything
      bytes == IF size.val < 0 THEN left ELSE Min(size.val, left)
      data  == SubSeq(disk.bytes, size.pos + 1, size.pos + bytes)
      f1    == [file EXCEPT !.pos = size.pos]
      f2    == [f1 EXCEPT !.cur_job_record_size = size.val,
                          !.pos = size.pos + bytes]
      buf2  == Store(job_record, data)
      procs == buf_read_int(buf2, 0)
      R(ret, exit, ub, f, b) ==
        [ret |-> ret, exit |-> exit, ub |-> ub, file |-> f, job_record |-> b]
  IN
  IF ~size.ok THEN R(FALSE, TRUE, FALSE, f1, job_record)
  ELSE IF size.val > file.max_job_size
  THEN R(FALSE, FALSE, FALSE, f1, job_record)
  ELSE IF bytes > Len(job_record) THEN R(FALSE, FALSE, TRUE, f2, job_record)
  ELSE IF bytes # size.val THEN R(FALSE, FALSE, FALSE, f2, buf2)
  ELSE IF procs.ub THEN R(FALSE, FALSE, TRUE, f2, buf2)
  ELSE R(TRUE, FALSE, FALSE,
         [f2 EXCEPT !.cur_job_procs = procs.val, !.cur_job_id = @ + 1], buf2)

\* ------------------------------------------------------------------------
\* Inputs: the job descriptors that are packed
\* ------------------------------------------------------------------------
\* environment keys in ascending order: "X", "Y"
EnvKeys == << <<88>>, <<89>> >>
\* environment values: "p", "q"
EnvVals == { <<112>>, <<113>> }
\* (working_dir, args): ("/a", ["app"]) and ("/b", ["<exe>", "1"])
Invocations ==
  { [working_dir |-> <<47, 97>>, args |-> << <<97, 112, 112>> >>],
    [working_dir |-> <<47, 98>>, args |-> << CRAM_DEFAULT_EXE, <<49>> >>] }

\* every environment over EnvKeys: keys unique and ascending
Envs ==
  { [keys   |-> PickSeq(EnvKeys, {i \in DOMAIN f : f[i] # Unset}, 1),
     values |-> PickSeq(f, {i \in DOMAIN f : f[i] # Unset}, 1)] :
    f \in [DOMAIN EnvKeys -> EnvVals \cup {Unset}] }

JobUniverse ==
  { cram_job_t(np, inv.working_dir, inv.args, e.keys, e.values) :
      np \in 1..MaxProcs, inv \in Invocations, e \in Envs }

\* job lists of 1..MaxJobs jobs
JobLists(universe) ==
  UNION { [1..n -> universe] : n \in 1..MaxJobs }

\* the container file the packer writes for a job list
PackedFile(js) == [exists |-> TRUE, bytes |-> EncContainer(js)]

\* ------------------------------------------------------------------------
\* State
\* ------------------------------------------------------------------------
VARIABLES
  jobs,      \* the job descriptors that were packed, in submission order
  disk,      \* the container file: [exists, bytes]
  cat,       \* cram-cat: [pc, file, job_record, first_job, out]
  delta      \* a direct application of decompress: [job, ub, keys, values]

codecVars == <<cat, delta>>

\* ------------------------------------------------------------------------
\* cram-cat: main of cram-cat.c and cram_file_cat
\* ------------------------------------------------------------------------
CatInit ==
  /\ cat = [pc |-> "main", file |-> NoFile, job_record |-> <<>>,
            first_job |-> NoJob, out |-> <<>>]
  /\ delta = [job |-> 0, ub |-> FALSE, keys |-> <<>>, values |-> <<>>]

\* main: cram_file_open, exit(1) when it fails
CatOpen ==
  /\ cat.pc = "main"
  /\ LET o == cram_file_open(disk, 0, Unset, 0)
     IN  cat' = [cat EXCEPT !.pc = IF o.ret THEN "cat" ELSE "exit1",
                            !.file = o.file]
  /\ UNCHANGED delta

\* one call of cram_file_next_job and cram_job_decompress in cram_file_cat;
\* the return value of cram_file_next_job is not looked at
CatStep(base, job_record) ==
  LET n == cram_file_next_job(disk, cat.file, job_record)
      d == cram_job_decompress(n.job_record, base)
  IN  IF n.exit THEN [cat EXCEPT !.pc = "exit1", !.file = n.file]
      ELSE IF n.ub \/ d.ub
      THEN [cat EXCEPT !.pc = "undefined", !.file = n.file,
                       !.job_record = n.job_record]
      ELSE IF d.abort
      THEN [cat EXCEPT !.pc = "abort", !.file = n.file,
                       !.job_record = n.job_record]
      ELSE [cat EXCEPT !.file = n.file, !.job_record = n.job_record,
                       !.pc = "rest",
                       !.first_job = IF base = NULL THEN d.job ELSE @,
                       !.out = Append(@, d.job)]

\* cram_file_cat up to the first job
CatFirst ==
  /\ cat.pc = "cat"
  /\ IF ~cram_file_has_more_jobs(cat.file)
     THEN cat' = [cat EXCEPT !.pc = "done"]
     ELSE cat' = CatStep(NULL, malloc(cat.file.max_job_size))
  /\ UNCHANGED delta

\* the loop of cram_file_cat over the rest of the jobs
CatRest ==
  /\ cat.pc = "rest"
  /\ IF ~cram_file_has_more_jobs(cat.file)
     THEN cat' = [cat EXCEPT !.pc = "done"]
     ELSE cat' = CatStep(cat.first_job, cat.job_record)
  /\ UNCHANGED delta

\* decompress applied to the first job's environment and the subtracted
\* keys and changed pairs the packer computes for job i
ApplyDelta ==
  /\ delta.job = 0
  /\ \E i \in 2..Len(jobs) :
       LET sub == SubtractedOf(jobs[1], jobs[i])
           env == decompress(jobs[1], Len(sub), sub,
                             ChangedKeysOf(jobs[1], jobs[i]),
                             ChangedValsOf(jobs[1], jobs[i]))
       IN  delta' = [job |-> i, ub |-> env.ub,
                     keys |-> env.keys, values |-> env.values]
  /\ UNCHANGED cat

\* ------------------------------------------------------------------------
\* The launch: MPI_Init of cram.w on every rank of MPI_COMM_WORLD
\* ------------------------------------------------------------------------
VARIABLES
  size,      \* number of ranks of MPI_COMM_WORLD
  knobs,     \* launch environment: [CRAM_FILE (is it set), CRAM_OUTPUT,
             \* CRAM_BUFFER_SIZE]
  proc,      \* per rank: position in MPI_Init, cram's statics and locals
  os,        \* per rank: the process (cwd, argv, environ, streams, the
             \* lines cram's handlers printed, exit status, ...)
  root,      \* locals of rank 0: [cram_file, errno, cur_rank, end_rank, r],
             \* and buffer: what setvbuf was called with
  net,       \* MPI: broadcasts, messages in flight, split and barrier
  abort,     \* PMPI_Abort: [called, code, rank]
  lastCall   \* the last intercepted MPI call: [rank, given, passed]

launchVars == <<size, knobs, proc, os, root, net, abort, lastCall>>
vars == <<jobs, disk, cat, delta,
          size, knobs, proc, os, root, net, abort, lastCall>>

Ranks == 0..(size - 1)

\* communicators
Comm(name, color, members) ==
  [name |-> name, color |-> color, members |-> members]
MPI_COMM_WORLD == Comm("MPI_COMM_WORLD", 0, [i \in 1..size |-> i - 1])
MPI_COMM_NULL  == Comm("MPI_COMM_NULL", 0, <<>>)
MPI_COMM_SELF(r) == Comm("MPI_COMM_SELF", 0, <<r>>)

\* file names and streams.  A stream is a file name opened relative to the
\* working directory dir; SystemStream is what the process was started
\* with, NullStream a FILE* that is NULL.
FileName(kind, job, rank, ext) ==
  [kind |-> kind, job |-> job, rank |-> rank, ext |-> ext]
fopen(name, cwd) ==
  [kind |-> name.kind, job |-> name.job, rank |-> name.rank,
   ext |-> name.ext, dir |-> cwd]
SystemStream == fopen(FileName("system", -1, -1, ""), <<>>)
NullStream   == fopen(FileName("NULL", -1, -1, ""), <<>>)
\* "/dev/null"
DevNull == FileName("devnull", -1, -1, "")

\* what the processes are started with: "/l", ["./t"], { W=l, X=l }
LaunchDir  == <<47, 108>>
LaunchArgv == << <<46, 47, 116>> >>
\* a char** that is not NULL: the vector it points to
Vector(v) == [v |-> v]
LaunchEnv  == (<<87>> :> <<108>>) @@ (<<88>> :> <<108>>)

InitProc ==
  [pc |-> "start", job_id |-> -1, local_rank |-> -1,
   local_world |-> MPI_COMM_NULL, cram_output_mode |-> "rank0",
   original_stderr |-> NullStream,
   max_job_size |-> 0, job_record |-> <<>>, first_job |-> NoJob,
   cram_job |-> NoJob]

InitOS ==
  [cwd |-> LaunchDir, argc |-> Len(LaunchArgv), argv |-> Vector(LaunchArgv),
   environ |-> LaunchEnv,
   cram_argv |-> <<>>, stdout |-> SystemStream, stderr |-> SystemStream,
   handlers |-> FALSE, finalized |-> FALSE, finalize_calls |-> 0,
   status |-> -1, log |-> <<>>]

NoBcast(nothing) == [sent |-> FALSE, data |-> nothing]

\* the state at the call of MPI_Init in processes that are started as p
LaunchInitFrom(p) ==
  /\ proc = [r \in Ranks |-> InitProc]
  /\ os = [r \in Ranks |-> p]
  /\ root = [cram_file |-> NoFile, errno |-> 0, cur_rank |-> 0,
             end_rank |-> 0, r |-> 0, buffer |-> NoBuffer]
  /\ net = [bcast_size |-> NoBcast(0), bcast_record |-> NoBcast(<<>>),
            chan |-> [r \in Ranks |-> <<>>], split |-> {}, barrier |-> {}]
  /\ abort = [called |-> FALSE, code |-> 0, rank |-> -1]
  /\ lastCall = [rank |-> -1, given |-> <<>>, passed |-> <<>>]

LaunchInit == LaunchInitFrom(InitOS)

\* PMPI_Abort(comm, code) called by rank r: the call does not return
Abort(r, code) ==
  /\ abort' = [called |-> TRUE, code |-> code, rank |-> r]
  /\ proc' = [proc EXCEPT ![r].pc = "aborted"]

\* exit(status) of rank r before any exit handler is registered
Exit(r, status) ==
  /\ proc' = [proc EXCEPT ![r].pc = "exited"]
  /\ os' = [os EXCEPT ![r].status = status]

\* rank r ran into undefined behaviour: nothing is known about it any more
Undefined(r) == proc' = [proc EXCEPT ![r].pc = "undefined"]

\* line 194: getenv("CRAM_FILE") returned NULL
CramDisabled_never(k) == FALSE
CramDisabled(k) == ~k.CRAM_FILE

\* MPI_Init, lines 177-202: PMPI_Init, then getenv("CRAM_FILE")
MPI_Init_enter(r) ==
  /\ proc[r].pc = "start"
  /\ IF CramDisabled(knobs)
     THEN proc' = [proc EXCEPT ![r].pc = "app",
                               ![r].local_world = MPI_COMM_WORLD]
     ELSE proc' = [proc EXCEPT ![r].pc = IF r = 0 THEN "open"
                                         ELSE "bcast_size"]
  /\ UNCHANGED <<os, root, net, abort, lastCall>>

\* line 212: the errno that is read after cram_file_open failed is the one
\* fopen set, or, when fopen succeeded, whatever the library calls before
\* left: 0, or a stale error number such as ENOTTY
StaleErrno == {0, 25}

\* MPI_Init, lines 208-217: rank 0 opens the cram file
MPI_Init_open ==
  /\ proc[0].pc = "open"
  /\ \E e \in StaleErrno :
       LET o == cram_file_open(disk, e, knobs.CRAM_BUFFER_SIZE, 0)
       IN  IF o.exit
           THEN /\ Exit(0, 1)
                /\ root' = [root EXCEPT !.buffer = o.buffer]
                /\ UNCHANGED abort
           ELSE IF ~o.ret
           THEN /\ Abort(0, o.errno)
                /\ root' = [root EXCEPT !.errno = o.errno,
                                         !.buffer = o.buffer]
                /\ UNCHANGED os
           ELSE /\ root' = [root EXCEPT !.cram_file = o.file,
                                         !.buffer = o.buffer]
                /\ proc' = [proc EXCEPT ![0].pc = "check"]
                /\ UNCHANGED <<os, abort>>
  /\ UNCHANGED <<net, lastCall>>

\* ------------------------------------------------------------------------
\* cram_file_bcast_jobs on the root (rank 0)
\* ------------------------------------------------------------------------
\* line 1066: in_first_job, with cur_rank = first_job.num_procs
InFirstJob_inclusive(rank, cur_rank) == rank <= cur_rank
InFirstJob(rank, cur_rank) == rank < cur_rank

\* a message of root in flight: count elements of an MPI type, tagged CRAM_TAG
Msg(type, data) ==
  [tag |-> CRAM_TAG, type |-> type, count |-> Len(data), data |-> data]

\* line 1038: the file needs more processes than the communicator has
CapacityExceeded_offbyone(total_procs, comm_size) == total_procs > comm_size + 1
CapacityExceeded(total_procs, comm_size) == total_procs > comm_size

\* lines 1035-1048 without the PMPI_Bcast of line 1047
bcast_jobs_check_nobcast ==
  /\ proc[0].pc = "check"
  /\ IF CapacityExceeded(root.cram_file.total_procs, size)
     THEN /\ Abort(0, 1)
          /\ UNCHANGED net
     ELSE /\ proc' = [proc EXCEPT
                 ![0].pc = "read_first",
                 ![0].max_job_size = root.cram_file.max_job_size,
                 ![0].job_record = malloc(root.cram_file.max_job_size)]
          /\ UNCHANGED <<net, abort>>
  /\ UNCHANGED <<os, root, lastCall>>

\* lines 1035-1048: capacity check, broadcast of max_job_size, malloc
bcast_jobs_check ==
  /\ proc[0].pc = "check"
  /\ IF CapacityExceeded(root.cram_file.total_procs, size)
     THEN /\ Abort(0, 1)
          /\ UNCHANGED net
     ELSE /\ net' = [net EXCEPT !.bcast_size =
                       [sent |-> TRUE, data |-> root.cram_file.max_job_size]]
          /\ proc' = [proc EXCEPT
                 ![0].pc = "read_first",
                 ![0].max_job_size = root.cram_file.max_job_size,
                 ![0].job_record = malloc(root.cram_file.max_job_size)]
          /\ UNCHANGED abort
  /\ UNCHANGED <<os, root, lastCall>>

\* lines 1050-1066 on the root: read record 0, broadcast it, decompress it
bcast_jobs_first ==
  /\ proc[0].pc = "read_first"
  /\ LET n == cram_file_next_job(disk, root.cram_file, proc[0].job_record)
         d == cram_job_decompress(n.job_record, NULL)
     IN  IF n.exit
         THEN /\ Exit(0, 1)
              /\ root' = [root EXCEPT !.cram_file = n.file]
              /\ UNCHANGED <<net, abort>>
         ELSE IF n.ub
         THEN /\ Undefined(0)
              /\ root' = [root EXCEPT !.cram_file = n.file]
              /\ UNCHANGED <<os, net, abort>>
         ELSE IF ~n.ret
         THEN /\ Abort(0, 1)
              /\ root' = [root EXCEPT !.cram_file = n.file]
              /\ UNCHANGED <<os, net>>
         ELSE IF d.ub
         THEN /\ Undefined(0)
              /\ root' = [root EXCEPT !.cram_file = n.file]
              /\ net' = [net EXCEPT !.bcast_record =
                           [sent |-> TRUE, data |-> n.job_record]]
              /\ UNCHANGED <<os, abort>>
         ELSE IF d.abort
         THEN /\ Abort(0, 1)
              /\ root' = [root EXCEPT !.cram_file = n.file]
              /\ net' = [net EXCEPT !.bcast_record =
                           [sent |-> TRUE, data |-> n.job_record]]
              /\ UNCHANGED os
         ELSE /\ root' = [root EXCEPT !.cram_file = n.file,
                                      !.cur_rank = d.job.num_procs]
              /\ net' = [net EXCEPT !.bcast_record =
                           [sent |-> TRUE, data |-> n.job_record]]
              /\ proc' = [proc EXCEPT ![0].pc = "next_job",
                                      ![0].job_record = n.job_record,
                                      ![0].first_job = d.job]
              /\ UNCHANGED <<os, abort>>
  /\ UNCHANGED lastCall

\* the test of the loop at line 1085, taken after a job was read and after
\* each PMPI_Waitall
SendLoopPc(cur_rank, end_rank) ==
  IF cur_rank < end_rank THEN "isend" ELSE "next_job"

\* lines 1071-1086: the next job of the file, or the end of the loop
bcast_jobs_next ==
  /\ proc[0].pc = "next_job"
  /\ IF ~cram_file_has_more_jobs(root.cram_file)
     THEN /\ proc' = [proc EXCEPT ![0].pc = "send_inactive"]
          /\ UNCHANGED <<os, root, abort>>
     ELSE LET n == cram_file_next_job(disk, root.cram_file,
                                      proc[0].job_record)
              end_rank == root.cur_rank + n.file.cur_job_procs
          IN  IF n.exit
              THEN /\ Exit(0, 1)
                   /\ root' = [root EXCEPT !.cram_file = n.file]
                   /\ UNCHANGED abort
              ELSE IF n.ub
              THEN /\ Undefined(0)
                   /\ root' = [root EXCEPT !.cram_file = n.file]
                   /\ UNCHANGED <<os, abort>>
              ELSE IF ~n.ret
              THEN /\ Abort(0, 1)
                   /\ root' = [root EXCEPT !.cram_file = n.file]
                   /\ UNCHANGED os
              ELSE /\ root' = [root EXCEPT !.cram_file = n.file,
                                           !.end_rank = end_rank, !.r = 0]
                   /\ proc' = [proc EXCEPT
                          ![0].pc = SendLoopPc(root.cur_rank, end_rank),
                          ![0].job_record = n.job_record]
                   /\ UNCHANGED <<os, abort>>
  /\ UNCHANGED <<net, lastCall>>

\* lines 1085-1093 without the PMPI_Waitall of line 1094 at the end of a
\* job's rank range
bcast_jobs_isend_nowait ==
  /\ proc[0].pc = "isend"
  /\ root.r < MAX_CONCURRENT_PEERS * 2
  /\ root.cur_rank < root.end_rank
  /\ IF root.cur_rank \notin Ranks
     THEN /\ Abort(0, 6)
          /\ UNCHANGED <<root, net>>
     ELSE /\ net' = [net EXCEPT !.chan[root.cur_rank] =
                  @ \o << Msg("MPI_INT", <<root.cram_file.cur_job_id>>),
                          Msg("MPI_CHAR",
                              SubSeq(proc[0].job_record, 1,
                                     root.cram_file.cur_job_record_size)) >>]
          /\ root' = [root EXCEPT !.r = @ + 2, !.cur_rank = @ + 1]
          /\ proc' = [proc EXCEPT
                 ![0].pc = SendLoopPc(root.cur_rank + 1, root.end_rank)]
          /\ UNCHANGED abort
  /\ UNCHANGED <<os, lastCall>>

\* lines 1085-1093 without the test r < max_requests of line 1086
bcast_jobs_isend_nowindow ==
  /\ proc[0].pc = "isend"
  /\ root.cur_rank < root.end_rank
  /\ IF root.cur_rank \notin Ranks
     THEN /\ Abort(0, 6)
          /\ UNCHANGED <<root, net>>
     ELSE /\ net' = [net EXCEPT !.chan[root.cur_rank] =
                  @ \o << Msg("MPI_INT", <<root.cram_file.cur_job_id>>),
                          Msg("MPI_CHAR",
                              SubSeq(proc[0].job_record, 1,
                                     root.cram_file.cur_job_record_size)) >>]
          /\ root' = [root EXCEPT !.r = @ + 2, !.cur_rank = @ + 1]
          /\ UNCHANGED <<proc, abort>>
  /\ UNCHANGED <<os, lastCall>>

\* lines 1087-1093 without the cur_rank++ of line 1092 in the first round
bcast_jobs_isend_again ==
  /\ proc[0].pc = "isend"
  /\ root.r < MAX_CONCURRENT_PEERS * 2
  /\ root.cur_rank < root.end_rank
  /\ IF root.cur_rank \notin Ranks
     THEN /\ Abort(0, 6)
          /\ UNCHANGED <<root, net>>
     ELSE /\ net' = [net EXCEPT !.chan[root.cur_rank] =
                  @ \o << Msg("MPI_INT", <<root.cram_file.cur_job_id>>),
                          Msg("MPI_CHAR",
                              SubSeq(proc[0].job_record, 1,
                                     root.cram_file.cur_job_record_size)) >>]
          /\ root' = [root EXCEPT !.r = @ + 2,
                                  !.cur_rank = IF root.r = 0 THEN @ ELSE @ + 1]
          /\ UNCHANGED <<proc, abort>>
  /\ UNCHANGED <<os, lastCall>>

\* lines 1087-1093 with the two PMPI_Isend in the other order
bcast_jobs_isend_swapped ==
  /\ proc[0].pc = "isend"
  /\ root.r < MAX_CONCURRENT_PEERS * 2
  /\ root.cur_rank < root.end_rank
  /\ IF root.cur_rank \notin Ranks
     THEN /\ Abort(0, 6)
          /\ UNCHANGED <<root, net>>
     ELSE /\ net' = [net EXCEPT !.chan[root.cur_rank] =
                  @ \o << Msg("MPI_CHAR",
                              SubSeq(proc[0].job_record, 1,
                                     root.cram_file.cur_job_record_size)),
                          Msg("MPI_INT", <<root.cram_file.cur_job_id>>) >>]
          /\ root' = [root EXCEPT !.r = @ + 2, !.cur_rank = @ + 1]
          /\ UNCHANGED <<proc, abort>>
  /\ UNCHANGED <<os, lastCall>>

\* lines 1087-1093: the two PMPI_Isend to cur_rank, the job id and the
\* record.  A destination outside the communicator is an MPI error, fatal
\* under the default error handler.
bcast_jobs_isend ==
  /\ proc[0].pc = "isend"
  /\ root.r < MAX_CONCURRENT_PEERS * 2
  /\ root.cur_rank < root.end_rank
  /\ IF root.cur_rank \notin Ranks
     THEN /\ Abort(0, 6)
          /\ UNCHANGED <<root, net>>
     ELSE /\ net' = [net EXCEPT !.chan[root.cur_rank] =
                  @ \o << Msg("MPI_INT", <<root.cram_file.cur_job_id>>),
                          Msg("MPI_CHAR",
                              SubSeq(proc[0].job_record, 1,
                                     root.cram_file.cur_job_record_size)) >>]
          /\ root' = [root EXCEPT !.r = @ + 2, !.cur_rank = @ + 1]
          /\ UNCHANGED <<proc, abort>>
  /\ UNCHANGED <<os, lastCall>>

\* line 1094: PMPI_Waitall, then the test of the loop at line 1085
bcast_jobs_waitall ==
  /\ proc[0].pc = "isend"
  /\ ~(root.r < MAX_CONCURRENT_PEERS * 2 /\ root.cur_rank < root.end_rank)
  /\ root' = [root EXCEPT !.r = 0]
  /\ proc' = [proc EXCEPT ![0].pc = SendLoopPc(root.cur_rank, root.end_rank)]
  /\ UNCHANGED <<os, net, abort, lastCall>>

\* lines 1098-1102 without the PMPI_Send
bcast_jobs_send_inactive_skipped ==
  /\ proc[0].pc = "send_inactive"
  /\ root.cur_rank < size
  /\ root' = [root EXCEPT !.cur_rank = @ + 1]
  /\ UNCHANGED <<proc, os, net, abort, lastCall>>

\* lines 1098-1102: PMPI_Send of -1 to one inactive rank
bcast_jobs_send_inactive ==
  /\ proc[0].pc = "send_inactive"
  /\ root.cur_rank < size
  /\ net' = [net EXCEPT !.chan[root.cur_rank] =
               Append(@, Msg("MPI_INT", <<-1>>))]
  /\ root' = [root EXCEPT !.cur_rank = @ + 1]
  /\ UNCHANGED <<proc, os, abort, lastCall>>

\* cram_job_copy: a deep copy
cram_job_copy(src) ==
  cram_job_t(src.num_procs, src.working_dir, src.args, src.keys, src.values)

\* lines 1115-1124 on the root: the first job is the root's when root is
\* one of its ranks; the record buffer and first_job go out of scope
bcast_jobs_root_done ==
  /\ proc[0].pc = "send_inactive"
  /\ ~(root.cur_rank < size)
  /\ proc' = [proc EXCEPT
         ![0].pc = "split",
         ![0].cram_job = IF InFirstJob(0, proc[0].first_job.num_procs)
                         THEN cram_job_copy(proc[0].first_job) ELSE @,
         ![0].job_id = IF InFirstJob(0, proc[0].first_job.num_procs)
                       THEN 0 ELSE @,
         ![0].job_record = <<>>,
         ![0].first_job = NoJob]
  /\ UNCHANGED <<os, root, net, abort, lastCall>>

\* ------------------------------------------------------------------------
\* cram_file_bcast_jobs on the other ranks
\* ------------------------------------------------------------------------
\* lines 1046-1048: PMPI_Bcast of max_job_size, malloc of the record buffer
bcast_jobs_recv_size(r) ==
  /\ r # 0
  /\ proc[r].pc = "bcast_size"
  /\ net.bcast_size.sent
  /\ proc' = [proc EXCEPT ![r].pc = "bcast_first",
                          ![r].max_job_size = net.bcast_size.data,
                          ![r].job_record = malloc(net.bcast_size.data)]
  /\ UNCHANGED <<os, root, net, abort, lastCall>>

\* lines 1059-1066 and 1115-1124: PMPI_Bcast of record 0, its
\* decompression, and the copy of the first job on the ranks that run it
bcast_jobs_recv_first(r) ==
  /\ r # 0
  /\ proc[r].pc = "bcast_first"
  /\ net.bcast_record.sent
  /\ LET d == cram_job_decompress(net.bcast_record.data, NULL)
         in_first_job == InFirstJob(r, d.job.num_procs)
     IN  IF d.ub
         THEN /\ Undefined(r)
              /\ UNCHANGED abort
         ELSE IF d.abort
         THEN Abort(r, 1)
         ELSE /\ proc' = [proc EXCEPT
                     ![r].pc = IF in_first_job THEN "split" ELSE "recv_id",
                     ![r].job_record = IF in_first_job THEN <<>>
                                       ELSE net.bcast_record.data,
                     ![r].first_job = IF in_first_job THEN NoJob ELSE d.job,
                     ![r].cram_job = IF in_first_job
                                     THEN cram_job_copy(d.job) ELSE @,
                     ![r].job_id = IF in_first_job THEN 0 ELSE @]
              /\ UNCHANGED abort
  /\ UNCHANGED <<os, root, net, lastCall>>

\* lines 1112 and 1122-1124: decompression against first_job of whatever
\* the record buffer holds; the buffer and first_job go out of scope
RecvDecompress(r, id, job_record) ==
  LET d == cram_job_decompress(job_record, proc[r].first_job)
  IN  IF d.ub
      THEN /\ Undefined(r)
           /\ UNCHANGED abort
      ELSE IF d.abort
      THEN Abort(r, 1)
      ELSE /\ proc' = [proc EXCEPT ![r].pc = "split",
                                   ![r].job_id = id,
                                   ![r].job_record = <<>>,
                                   ![r].first_job = NoJob,
                                   ![r].cram_job = d.job]
           /\ UNCHANGED abort

\* lines 1107-1112: PMPI_Recv of the job id (one int).  A negative id is
\* followed by no second receive.  A message that does not fit one int is
\* an MPI error, fatal under the default error handler.
bcast_jobs_recv_id(r) ==
  /\ r # 0
  /\ proc[r].pc = "recv_id"
  /\ net.chan[r] # <<>>
  /\ LET m == Head(net.chan[r])
     IN  IF m.type # "MPI_INT" \/ m.count > 1
         THEN Abort(r, 15)
         ELSE IF m.data[1] >= 0
         THEN /\ proc' = [proc EXCEPT ![r].pc = "recv_record",
                                      ![r].job_id = m.data[1]]
              /\ UNCHANGED abort
         ELSE RecvDecompress(r, m.data[1], proc[r].job_record)
  /\ net' = [net EXCEPT !.chan[r] = Tail(@)]
  /\ UNCHANGED <<os, root, lastCall>>

\* lines 1109-1112: PMPI_Recv of up to max_job_size chars into the record
\* buffer, then the decompression
bcast_jobs_recv_record(r) ==
  /\ r # 0
  /\ proc[r].pc = "recv_record"
  /\ net.chan[r] # <<>>
  /\ LET m == Head(net.chan[r])
     IN  IF m.type # "MPI_CHAR" \/ m.count > proc[r].max_job_size
         THEN Abort(r, 15)
         ELSE RecvDecompress(r, proc[r].job_id,
                             Store(proc[r].job_record, m.data))
  /\ net' = [net EXCEPT !.chan[r] = Tail(@)]
  /\ UNCHANGED <<os, root, lastCall>>

\* ------------------------------------------------------------------------
\* MPI_Init after cram_file_bcast_jobs
\* ------------------------------------------------------------------------
\* the ranks of a set in the order of (key, rank)
RECURSIVE SortByKey(_, _)
SortByKey(S, key) ==
  IF S = {} THEN <<>>
  ELSE LET first == CHOOSE q \in S :
                      \A p \in S : key[q] < key[p] \/ (key[q] = key[p] /\ q <= p)
       IN  <<first>> \o SortByKey(S \ {first}, key)

\* PMPI_Comm_split(MPI_COMM_WORLD, color, key, &newcomm) as seen by rank r:
\* the ranks that passed the same color, ordered by key
PMPI_Comm_split(color, key, r) ==
  Comm("split", color[r],
       SortByKey({q \in DOMAIN color : color[q] = color[r]}, key))

\* PMPI_Comm_rank(comm, &rank)
PMPI_Comm_rank(comm, r) ==
  (CHOOSE i \in 1..Len(comm.members) : comm.members[i] = r) - 1

\* the color and the key passed at line 226
SplitColor_same(r) == 0
SplitColor(r) == proc[r].job_id
SplitKey(r) == r

\* line 230: the rank is thrown away
Unneeded_never(job_id) == job_id < -1
Unneeded(job_id) == job_id = -1

\* line 226: rank r calls PMPI_Comm_split
MPI_Init_split_enter(r) ==
  /\ proc[r].pc = "split"
  /\ proc' = [proc EXCEPT ![r].pc = "in_split"]
  /\ net' = [net EXCEPT !.split = @ \cup {r}]
  /\ UNCHANGED <<os, root, abort, lastCall>>

\* line 226, with the barrier of line 269 called before cram_job_setup
MPI_Init_split_leave_barrier(r) ==
  /\ proc[r].pc = "in_split"
  /\ net.split = Ranks
  /\ proc' = [proc EXCEPT
         ![r].local_world =
            PMPI_Comm_split([q \in Ranks |-> SplitColor(q)],
                            [q \in Ranks |-> SplitKey(q)], r),
         ![r].pc = IF Unneeded(proc[r].job_id) THEN "inactive" ELSE "setup"]
  /\ net' = [net EXCEPT !.barrier = @ \cup {r}]
  /\ UNCHANGED <<os, root, abort, lastCall>>

\* line 226: PMPI_Comm_split returns once every rank has called it
MPI_Init_split_leave(r) ==
  /\ proc[r].pc = "in_split"
  /\ net.split = Ranks
  /\ proc' = [proc EXCEPT
         ![r].local_world =
            PMPI_Comm_split([q \in Ranks |-> SplitColor(q)],
                            [q \in Ranks |-> SplitKey(q)], r),
         ![r].pc = IF Unneeded(proc[r].job_id) THEN "inactive" ELSE "setup"]
  /\ UNCHANGED <<os, root, net, abort, lastCall>>

\* line 231: an unneeded rank calls the barrier that matches line 269
MPI_Init_inactive_barrier(r) ==
  /\ proc[r].pc = "inactive"
  /\ proc' = [proc EXCEPT ![r].pc = "in_barrier_inactive"]
  /\ net' = [net EXCEPT !.barrier = @ \cup {r}]
  /\ UNCHANGED <<os, root, abort, lastCall>>

\* lines 231-233: the barrier returns, PMPI_Finalize, exit(0)
MPI_Init_inactive_exit(r) ==
  /\ proc[r].pc = "in_barrier_inactive"
  /\ net.barrier = Ranks
  /\ proc' = [proc EXCEPT ![r].pc = "exited"]
  /\ os' = [os EXCEPT ![r].finalized = TRUE, ![r].finalize_calls = @ + 1,
                       ![r].status = 0]
  /\ UNCHANGED <<root, net, abort, lastCall>>

\* setenv(name, value, overwrite): a variable that is set keeps its value
\* when overwrite is 0
setenv_keep(environ, name, value, overwrite) ==
  IF name \in DOMAIN environ THEN environ
  ELSE [k \in DOMAIN environ \cup {name} |->
          IF k = name THEN value ELSE environ[k]]
setenv(environ, name, value, overwrite) ==
  IF name \in DOMAIN environ /\ overwrite = 0 THEN environ
  ELSE [k \in DOMAIN environ \cup {name} |->
          IF k = name THEN value ELSE environ[k]]

\* lines 1162-1165: setenv(key, value, 1) for every variable of the job
RECURSIVE SetEnvAll(_, _, _)
SetEnvAll(environ, keys, values) ==
  IF keys = <<>> THEN environ
  ELSE SetEnvAll(setenv(environ, Head(keys), Head(values), 1),
                 Tail(keys), Tail(values))

\* arg_copy: the job's arguments
arg_copy(job) == job.args

\* lines 1143-1146: exe_name, <<>> when it stays NULL
exe_name_never(p) == <<>>
exe_name(p) ==
  IF p.argc > 0 /\ p.argv # NULL THEN <<p.argv.v[1]>> ELSE <<>>

\* cram_job_setup with an environment that holds the job's variables only
cram_job_setup_clearenv(job, p) ==
  LET argv1 == arg_copy(job)
      argv2 == IF job.args[1] = CRAM_DEFAULT_EXE /\ exe_name(p) # <<>>
               THEN [argv1 EXCEPT ![1] = exe_name(p)[1]] ELSE argv1
  IN  IF Len(job.args) = 0
      THEN [ub |-> TRUE, p |-> p]
      ELSE [ub |-> FALSE,
            p |-> [p EXCEPT !.cwd = job.working_dir,
                            !.argc = Len(argv1),
                            !.argv = Vector(argv2),
                            !.cram_argv = arg_copy(job),
                            !.environ = SetEnvAll([k \in {} |-> <<>>],
                                                  job.keys, job.values)]]
\* cram_job_setup(job, argc, argv) in process p: chdir, the argument
\* vector, the globals cram_argc and cram_argv, the environment.
\* Reading job->args[0] of a job without arguments is undefined.
cram_job_setup(job, p) ==
  LET argv1 == arg_copy(job)
      argv2 == IF job.args[1] = CRAM_DEFAULT_EXE /\ exe_name(p) # <<>>
               THEN [argv1 EXCEPT ![1] = exe_name(p)[1]] ELSE argv1
  IN  IF Len(job.args) = 0
      THEN [ub |-> TRUE, p |-> p]
      ELSE [ub |-> FALSE,
            p |-> [p EXCEPT !.cwd = job.working_dir,
                            !.argc = Len(argv1),
                            !.argv = Vector(argv2),
                            !.cram_argv = arg_copy(job),
                            !.environ = SetEnvAll(@, job.keys, job.values)]]

\* cram_iargc of cram_fargs.c in process p: cram_argc, which arg_copy set
\* to the number of strings of cram_argv
cram_iargc(p) == Len(p.cram_argv)

\* cram_getarg(i, var, var_len) in process p: the var_len bytes of var,
\* the argument's bytes and then NUL bytes
cram_getarg(p, i, var_len) ==
  [c \in 1..var_len |->
     IF i > 0 /\ i < cram_iargc(p) /\ c <= Len(p.cram_argv[i + 1])
     THEN p.cram_argv[i + 1][c] ELSE 0]

\* tolower on every byte
ToLower(str) ==
  [i \in DOMAIN str |-> IF str[i] >= 65 /\ str[i] <= 90 THEN str[i] + 32
                        ELSE str[i]]
\* strcasecmp: strcmp on the lower-case strings
strcasecmp_sensitive(a, b) == strcmp(a, b)
strcasecmp(a, b) == strcmp(ToLower(a), ToLower(b))

\* get_output_mode: CRAM_OUTPUT, Unset when getenv returns NULL
get_output_mode(value) ==
  IF value = Unset \/ strcasecmp(value, <<114, 97, 110, 107, 48>>) = 0
  THEN "rank0"
  ELSE IF strcasecmp(value, <<115, 121, 115, 116, 101, 109>>) = 0
  THEN "system"
  ELSE IF strcasecmp(value, <<110, 111, 110, 101>>) = 0 THEN "none"
  ELSE IF strcasecmp(value, <<97, 108, 108>>) = 0 THEN "all"
  ELSE "rank0"

\* lines 245-260: the name of the output (ext "out") or error file
OutputFileName_anyrank(mode, job_id, local_rank, ext) ==
  IF mode = "rank0"
  THEN FileName("cram", job_id, -1, ext)
  ELSE IF mode = "all" THEN FileName("cram", job_id, local_rank, ext)
  ELSE DevNull
OutputFileName(mode, job_id, local_rank, ext) ==
  IF mode = "rank0" /\ local_rank = 0
  THEN FileName("cram", job_id, -1, ext)
  ELSE IF mode = "all" THEN FileName("cram", job_id, local_rank, ext)
  ELSE DevNull

\* redirect_io(out, err) with statics c and process p: [c, p] afterwards
redirect_io(out, err, c, p) ==
  IF c.cram_output_mode = "all"
  THEN [c |-> [c EXCEPT !.original_stderr = fopen(err, p.cwd)],
        p |-> [p EXCEPT !.stdout = fopen(out, p.cwd),
                        !.stderr = fopen(err, p.cwd)]]
  ELSE [c |-> [c EXCEPT !.original_stderr = p.stderr],
        p |-> [p EXCEPT !.stdout = fopen(out, p.cwd),
                        !.stderr = fopen(err, p.cwd)]]

\* lines 245-266 and 284-287: redirect_io when the mode is not system
Redirect(c, p) ==
  IF c.cram_output_mode # "system"
  THEN redirect_io(OutputFileName(c.cram_output_mode, c.job_id,
                                  c.local_rank, "out"),
                   OutputFileName(c.cram_output_mode, c.job_id,
                                  c.local_rank, "err"), c, p)
  ELSE [c |-> c, p |-> p]

\* lines 236-269 with the redirection before cram_job_setup
MPI_Init_setup_redirect_first(r) ==
  /\ proc[r].pc = "setup"
  /\ LET su == cram_job_setup(proc[r].cram_job, os[r])
         c1 == [proc[r] EXCEPT
                  !.local_rank = PMPI_Comm_rank(proc[r].local_world, r),
                  !.cram_output_mode = get_output_mode(knobs.CRAM_OUTPUT),
                  !.pc = "in_barrier"]
         r1 == Redirect(c1, os[r])
         rd == IF r # 0
               THEN [c |-> r1.c,
                     p |-> [su.p EXCEPT !.stdout = r1.p.stdout,
                                        !.stderr = r1.p.stderr]]
               ELSE [c |-> c1, p |-> su.p]
     IN  IF su.ub
         THEN /\ Undefined(r)
              /\ UNCHANGED <<os, net>>
         ELSE /\ proc' = [proc EXCEPT ![r] = rd.c]
              /\ os' = [os EXCEPT ![r] = rd.p]
              /\ net' = [net EXCEPT !.barrier = @ \cup {r}]
  /\ UNCHANGED <<root, abort, lastCall>>

\* lines 236-269: cram_job_setup, the local rank, the output mode, the
\* redirection on every rank but 0, and the call of the barrier
MPI_Init_setup(r) ==
  /\ proc[r].pc = "setup"
  /\ LET su == cram_job_setup(proc[r].cram_job, os[r])
         c1 == [proc[r] EXCEPT
                  !.local_rank = PMPI_Comm_rank(proc[r].local_world, r),
                  !.cram_output_mode = get_output_mode(knobs.CRAM_OUTPUT),
                  !.pc = "in_barrier"]
         rd == IF r # 0 THEN Redirect(c1, su.p) ELSE [c |-> c1, p |-> su.p]
     IN  IF su.ub
         THEN /\ Undefined(r)
              /\ UNCHANGED <<os, net>>
         ELSE /\ proc' = [proc EXCEPT ![r] = rd.c]
              /\ os' = [os EXCEPT ![r] = rd.p]
              /\ net' = [net EXCEPT !.barrier = @ \cup {r}]
  /\ UNCHANGED <<root, abort, lastCall>>

\* lines 269-296 with a barrier that returns at once
MPI_Init_return_unsynchronized(r) ==
  /\ proc[r].pc = "in_barrier"
  /\ LET rd == IF r = 0 THEN Redirect(proc[r], os[r])
               ELSE [c |-> proc[r], p |-> os[r]]
     IN  /\ proc' = [proc EXCEPT ![r] = [rd.c EXCEPT !.pc = "app",
                                                    !.cram_job = NoJob]]
         /\ os' = [os EXCEPT ![r] = [rd.p EXCEPT !.handlers = TRUE]]
  /\ root' = IF r = 0 THEN [root EXCEPT !.cram_file.fd = "NULL"] ELSE root
  /\ UNCHANGED <<net, abort, lastCall>>

\* lines 269-296: the barrier returns; rank 0 redirects last and closes the
\* file; setup_crash_handlers; cram_job_free; MPI_Init returns
MPI_Init_return(r) ==
  /\ proc[r].pc = "in_barrier"
  /\ net.barrier = Ranks
  /\ LET rd == IF r = 0 THEN Redirect(proc[r], os[r])
               ELSE [c |-> proc[r], p |-> os[r]]
     IN  /\ proc' = [proc EXCEPT ![r] = [rd.c EXCEPT !.pc = "app",
                                                    !.cram_job = NoJob]]
         /\ os' = [os EXCEPT ![r] = [rd.p EXCEPT !.handlers = TRUE]]
  /\ root' = IF r = 0 THEN [root EXCEPT !.cram_file.fd = "NULL"] ELSE root
  /\ UNCHANGED <<net, abort, lastCall>>

\* ------------------------------------------------------------------------
\* The application and the interceptors
\* ------------------------------------------------------------------------
\* swap_world(world): local_world when world is MPI_COMM_WORLD
swap_world_always(world, local_world) == local_world
swap_world(world, local_world) ==
  IF world = MPI_COMM_WORLD THEN local_world ELSE world

\* an interceptor generated by fnall: swap_world on every argument of type
\* MPI_Comm, then the call of the PMPI function
Interceptor(r) ==
  /\ proc[r].pc = "app"
  /\ \E given \in UNION { [1..n -> {MPI_COMM_WORLD, proc[r].local_world,
                                     MPI_COMM_SELF(r)}] : n \in 1..2 } :
       lastCall' = [rank |-> r, given |-> given,
                    passed |-> [i \in DOMAIN given |->
                                  swap_world(given[i], proc[r].local_world)]]
  /\ UNCHANGED <<proc, os, root, net, abort>>

\* fprintf(stream, "Rank %d on cram job %d <what> %d.\n", local_rank,
\* job_id, code) with the statics c: the line and the stream it goes to
fprintf(stream, what, c, code) ==
  [stream |-> stream, what |-> what, local_rank |-> c.local_rank,
   job_id |-> c.job_id, code |-> code]

\* the end of both handlers without the test of PMPI_Finalized
FinalizeAndExit0_always(p) ==
  [p EXCEPT !.finalized = TRUE, !.finalize_calls = @ + 1, !.status = 0]
\* the end of both handlers: PMPI_Finalized(&finalized), PMPI_Finalize
\* unless finalized, exit(0); finalize_calls counts the calls of
\* PMPI_Finalize
FinalizeAndExit0(p) ==
  [p EXCEPT !.finalized = TRUE,
            !.finalize_calls = IF p.finalized THEN @ ELSE @ + 1,
            !.status = 0]

\* segv_sigaction(signal, si, ctx) with statics c in process p.  fprintf to
\* a FILE* that is NULL is undefined (ub).
segv_sigaction(signal, c, p) ==
  IF c.original_stderr = NullStream THEN [ub |-> TRUE, p |-> p]
  ELSE [ub |-> FALSE,
        p |-> FinalizeAndExit0(
                [p EXCEPT !.log = Append(@, fprintf(c.original_stderr,
                                                    "died with signal",
                                                    c, signal))])]

\* on_exit_handler(err, arg) with statics c in process p; the exit(0) it
\* calls replaces the status of the exit that is under way
on_exit_handler(err, c, p) ==
  IF err = 0 THEN [ub |-> FALSE, p |-> p]
  ELSE IF c.original_stderr = NullStream THEN [ub |-> TRUE, p |-> p]
  ELSE [ub |-> FALSE,
        p |-> FinalizeAndExit0(
                [p EXCEPT !.log = Append(@, fprintf(c.original_stderr,
                                                    "exited with error",
                                                    c, err))])]

\* the application calls MPI_Finalize: the interceptor calls PMPI_Finalize
AppFinalize(r) ==
  /\ proc[r].pc = "app"
  /\ ~os[r].finalized
  /\ os' = [os EXCEPT ![r].finalized = TRUE, ![r].finalize_calls = @ + 1]
  /\ UNCHANGED <<proc, root, net, abort, lastCall>>

\* the application calls exit(status), or returns status from main: the
\* function registered by on_exit, if any, is called with the status
AppExitStatus(r, status) ==
  /\ proc[r].pc = "app"
  /\ LET p == [os[r] EXCEPT !.status = status]
         h == IF p.handlers THEN on_exit_handler(status, proc[r], p)
              ELSE [ub |-> FALSE, p |-> p]
     IN  IF h.ub
         THEN Undefined(r) /\ UNCHANGED os
         ELSE /\ proc' = [proc EXCEPT ![r].pc = "exited"]
              /\ os' = [os EXCEPT ![r] = h.p]
  /\ UNCHANGED <<root, net, abort, lastCall>>

\* exit with status 0, 1 or 2
AppExit(r) == \E status \in {0, 1, 2} : AppExitStatus(r, status)

\* the application takes a segmentation fault: SIGSEGV (11) is delivered to
\* the handler that sigaction installed, if any; otherwise the signal ends
\* the process
AppSegv(r) ==
  /\ proc[r].pc = "app"
  /\ LET h == segv_sigaction(11, proc[r], os[r])
     IN  IF ~os[r].handlers
         THEN proc' = [proc EXCEPT ![r].pc = "signalled"] /\ UNCHANGED os
         ELSE IF h.ub
         THEN Undefined(r) /\ UNCHANGED os
         ELSE /\ proc' = [proc EXCEPT ![r].pc = "exited"]
              /\ os' = [os EXCEPT ![r] = h.p]
  /\ UNCHANGED <<root, net, abort, lastCall>>

\* the MPI runtime ends a process of a job that was aborted
Killed(r) ==
  /\ abort.called
  /\ proc[r].pc \notin {"aborted", "exited", "killed", "signalled"}
  /\ proc' = [proc EXCEPT ![r].pc = "killed"]
  /\ UNCHANGED <<os, root, net, abort, lastCall>>

\* ------------------------------------------------------------------------
\* Specifications
\* ------------------------------------------------------------------------
\* the file is missing
MissingFile == [exists |-> FALSE, bytes |-> <<>>]
\* the file does not start with the magic number
BadMagicFile(js) == [PackedFile(js) EXCEPT !.bytes[1] = 100]

\* the jobs packed for a launch: "app" in /a with { X=p }, or "<exe> 1" in
\* /b with { X=q, Y=q }, on 1..MaxProcs processes
LaunchJobs ==
  { j \in JobUniverse :
      \/ /\ j.working_dir = <<47, 97>>
         /\ j.keys = << <<88>> >> /\ j.values = << <<112>> >>
      \/ /\ j.working_dir = <<47, 98>>
         /\ j.keys = EnvKeys /\ j.values = << <<113>>, <<113>> >> }

\* the containers of the launches: every packed job list that needs at most
\* one process more than the largest allocation; for a job list of one job
\* also a missing file and a file without the magic number
LaunchInputs ==
  { [jobs |-> js, disk |-> PackedFile(js)] :
      js \in { l \in JobLists(LaunchJobs) :
                 SumProcs(l, Len(l)) <= MaxRanks + 1 } }
  \cup { [jobs |-> js, disk |-> d] :
           js \in [1..1 -> LaunchJobs], d \in {MissingFile} }
  \cup { [jobs |-> js, disk |-> BadMagicFile(js)] :
           js \in [1..1 -> LaunchJobs] }

\* the launch of an allocation of 1..MaxRanks processes
Init ==
  /\ \E in \in LaunchInputs : jobs = in.jobs /\ disk = in.disk
  /\ size \in 1..MaxRanks
  /\ knobs \in [CRAM_FILE : BOOLEAN, CRAM_OUTPUT : {Unset},
                CRAM_BUFFER_SIZE : {Unset}]
  /\ knobs.CRAM_FILE \/ Len(jobs) = 1
  /\ LaunchInit
  /\ CatInit

\* the launch leaves the container, the allocation and cram-cat alone
LaunchFrame == UNCHANGED <<jobs, disk, cat, delta, size, knobs>>

Next ==
  \/ \E r \in Ranks : MPI_Init_enter(r) /\ LaunchFrame
  \/ MPI_Init_open /\ LaunchFrame
  \/ bcast_jobs_check /\ LaunchFrame
  \/ bcast_jobs_first /\ LaunchFrame
  \/ bcast_jobs_next /\ LaunchFrame
  \/ bcast_jobs_isend /\ LaunchFrame
  \/ bcast_jobs_waitall /\ LaunchFrame
  \/ bcast_jobs_send_inactive /\ LaunchFrame
  \/ bcast_jobs_root_done /\ LaunchFrame
  \/ \E r \in Ranks : bcast_jobs_recv_size(r) /\ LaunchFrame
  \/ \E r \in Ranks : bcast_jobs_recv_first(r) /\ LaunchFrame
  \/ \E r \in Ranks : bcast_jobs_recv_id(r) /\ LaunchFrame
  \/ \E r \in Ranks : bcast_jobs_recv_record(r) /\ LaunchFrame
  \/ \E r \in Ranks : MPI_Init_split_enter(r) /\ LaunchFrame
  \/ \E r \in Ranks : MPI_Init_split_leave(r) /\ LaunchFrame
  \/ \E r \in Ranks : MPI_Init_inactive_barrier(r) /\ LaunchFrame
  \/ \E r \in Ranks : MPI_Init_inactive_exit(r) /\ LaunchFrame
  \/ \E r \in Ranks : MPI_Init_setup(r) /\ LaunchFrame
  \/ \E r \in Ranks : MPI_Init_return(r) /\ LaunchFrame
  \/ \E r \in Ranks : Interceptor(r) /\ LaunchFrame
  \/ \E r \in Ranks : Killed(r) /\ LaunchFrame

Spec == Init /\ [][Next]_vars

\* cram-cat on a packed container, and decompress on the packer's deltas
CodecInit ==
  /\ jobs \in JobLists(JobUniverse)
  /\ disk = PackedFile(jobs)
  /\ size = 1
  /\ knobs = [CRAM_FILE |-> TRUE, CRAM_OUTPUT |-> Unset,
              CRAM_BUFFER_SIZE |-> Unset]
  /\ LaunchInit
  /\ CatInit

\* cram-cat leaves the container and the launch alone
CodecFrame == UNCHANGED <<jobs, disk>> /\ UNCHANGED launchVars

CodecStep ==
  \/ CatOpen /\ CodecFrame
  \/ CatFirst /\ CodecFrame
  \/ CatRest /\ CodecFrame
  \/ ApplyDelta /\ CodecFrame

SpecCodec == CodecInit /\ [][CodecStep]_vars

\* ------------------------------------------------------------------------
\* decompress on sorted key lists of any kind
\* ------------------------------------------------------------------------
\* number of different keys: "A", "B", ...
MaxMergeKeys == 3

\* the ascending list of the keys whose numbers are in idx
SortedKeys(idx) == PickSeq([i \in 1..MaxMergeKeys |-> <<64 + i>>], idx, 1)

\* a base environment with the value "o" for every key, a list of
\* subtracted keys and a list of changed keys with the value "n", all three
\* ascending, as cram_job_decompress hands them to decompress
MergeInit ==
  /\ \E b \in SUBSET (1..MaxMergeKeys), m \in SUBSET (1..MaxMergeKeys),
        c \in SUBSET (1..MaxMergeKeys) :
        delta = [job |-> 0,
                 base |-> cram_job_t(1, <<47, 97>>, <<>>, SortedKeys(b),
                                     [i \in 1..Cardinality(b) |-> <<111>>]),
                 missing |-> SortedKeys(m),
                 changed_keys |-> SortedKeys(c),
                 changed_vals |-> [i \in 1..Cardinality(c) |-> <<110>>],
                 ub |-> FALSE, keys |-> <<>>, values |-> <<>>]
  /\ cat = [pc |-> "main", file |-> NoFile, job_record |-> <<>>,
            first_job |-> NoJob, out |-> <<>>]
  /\ jobs = <<delta.base>>
  /\ disk = PackedFile(jobs)
  /\ size = 1
  /\ knobs = [CRAM_FILE |-> TRUE, CRAM_OUTPUT |-> Unset,
              CRAM_BUFFER_SIZE |-> Unset]
  /\ LaunchInit

\* line 991: decompress(base, num_subtracted, subtracted_env_vars,
\* num_changed, changed_keys, changed_vals, job)
MergeStep ==
  /\ delta.job = 0
  /\ LET env == decompress(delta.base, Len(delta.missing), delta.missing,
                           delta.changed_keys, delta.changed_vals)
     IN  delta' = [delta EXCEPT !.job = 1, !.ub = env.ub,
                                !.keys = env.keys, !.values = env.values]
  /\ UNCHANGED cat
  /\ CodecFrame

SpecMerge == MergeInit /\ [][MergeStep]_vars

\* ------------------------------------------------------------------------
\* Launches of damaged containers
\* ------------------------------------------------------------------------
\* a file with the int at byte offset at replaced by the int v
Patch(d, at, v) ==
  [d EXCEPT !.bytes = SubSeq(@, 1, at) \o EncInt(v)
                      \o SubSeq(@, at + 5, Len(@))]

\* byte offset of the length prefix of record k (1-based) in the container
RecordAt(js, k) == Len(EncContainer(js)) - Len(EncRecords(js, k))

\* byte offset of the length of working_dir in record k: after the length
\* prefix and num_procs
WorkingDirAt(js, k) == RecordAt(js, k) + 2 * Len(EncInt(0))

\* byte offset of num_subtracted in record k: after working_dir, num_args
\* and the arguments
NumSubtractedAt(js, k) ==
  WorkingDirAt(js, k) + Len(EncString(js[k].working_dir))
  + Len(EncInt(0)) + Len(EncStrings(js[k].args))

\* the job lists of the damaged containers: one process per job
IOJobLists ==
  { l \in JobLists(LaunchJobs) : \A i \in DOMAIN l : l[i].num_procs = 1 }

\* a container cut short anywhere
TruncatedFiles(js) ==
  { [PackedFile(js) EXCEPT !.bytes = SubSeq(@, 1, n)] :
      n \in 0..(Len(EncContainer(js)) - 1) }

\* a record whose length prefix is max_job_size + 1 or 0xffffffff
OversizeFiles(js) ==
  { Patch(PackedFile(js), RecordAt(js, k), v) :
      k \in DOMAIN js, v \in {MaxRecord(js, Len(js)) + 1, -1} }

\* a record whose working_dir is said to be as long as the whole record
BadStringFiles(js) ==
  { Patch(PackedFile(js), WorkingDirAt(js, k), Len(RecordOf(js, k))) :
      k \in DOMAIN js }

\* a first record that subtracts one key
NoBaseFile(js) == Patch(PackedFile(js), NumSubtractedAt(js, 1), 1)

\* the launches of the damaged containers and of the intact ones
IOInputs ==
  UNION { { [jobs |-> js, disk |-> d] :
              d \in TruncatedFiles(js) \cup OversizeFiles(js)
                    \cup BadStringFiles(js)
                    \cup {NoBaseFile(js), BadMagicFile(js), MissingFile,
                          PackedFile(js)} } :
          js \in IOJobLists }

IOInit ==
  /\ \E in \in IOInputs : jobs = in.jobs /\ disk = in.disk
  /\ size \in 1..MaxRanks
  /\ knobs = [CRAM_FILE |-> TRUE, CRAM_OUTPUT |-> Unset,
              CRAM_BUFFER_SIZE |-> Unset]
  /\ LaunchInit
  /\ CatInit

SpecIO == IOInit /\ [][Next]_vars

\* the launches of the containers whose first record subtracts a key, and
\* of the intact ones
NoBaseInit ==
  /\ jobs \in IOJobLists
  /\ disk \in {NoBaseFile(jobs), PackedFile(jobs)}
  /\ size \in 1..MaxRanks
  /\ knobs = [CRAM_FILE |-> TRUE, CRAM_OUTPUT |-> Unset,
              CRAM_BUFFER_SIZE |-> Unset]
  /\ LaunchInit
  /\ CatInit

SpecNoBase == NoBaseInit /\ [][Next]_vars

\* the environments the processes are started with: { W=l, X=l } and
\* { W=l, X=l, Y=l }
LaunchEnvs == {LaunchEnv, (<<89>> :> <<108>>) @@ LaunchEnv}

\* the launches of intact containers, and of a missing one, in either
\* environment
EnvInit ==
  /\ jobs \in IOJobLists
  /\ disk \in {PackedFile(jobs), MissingFile}
  /\ size \in 1..MaxRanks
  /\ knobs = [CRAM_FILE |-> TRUE, CRAM_OUTPUT |-> Unset,
              CRAM_BUFFER_SIZE |-> Unset]
  /\ \E e \in LaunchEnvs : LaunchInitFrom([InitOS EXCEPT !.environ = e])
  /\ CatInit

SpecEnv == EnvInit /\ [][Next]_vars

\* ------------------------------------------------------------------------
\* Launches whose application finalizes, exits or crashes
\* ------------------------------------------------------------------------
\* every spelling of a name in upper and lower case letters
RECURSIVE CaseVariants(_)
CaseVariants(name) ==
  IF name = <<>> THEN {<<>>}
  ELSE { <<ch>> \o rest :
           ch \in {Head(name)} \cup
                  (IF Head(name) \in 65..90 THEN {Head(name) + 32} ELSE {}),
           rest \in CaseVariants(Tail(name)) }

\* the names of the output modes: "RANK0", "SYSTEM", "NONE", "ALL"
ModeNames ==
  { <<82, 65, 78, 75, 48>>, <<83, 89, 83, 84, 69, 77>>,
    <<78, 79, 78, 69>>, <<65, 76, 76>> }

\* values of CRAM_OUTPUT: unset, every spelling of the four names, and
\* "", "al", "alll", "rank1", "non", "systemd"
OutputValues ==
  {Unset} \cup UNION { CaseVariants(n) : n \in ModeNames }
  \cup { <<>>, <<97, 108>>, <<97, 108, 108, 108>>,
         <<114, 97, 110, 107, 49>>, <<110, 111, 110>>,
         <<115, 121, 115, 116, 101, 109, 100>> }

\* the values of CRAM_OUTPUT of the launches of more than one process:
\* unset, "Rank0", "SYSTEM", "none", "aLL"
OutputKnobs ==
  { Unset, <<82, 97, 110, 107, 48>>, <<83, 89, 83, 84, 69, 77>>,
    <<110, 111, 110, 101>>, <<97, 76, 76>> }

\* what main passes to MPI_Init: its own argc and argv, argc = 0 and an
\* empty vector, or a positive argc with an argv that is NULL
StartedAs ==
  { InitOS, [InitOS EXCEPT !.argc = 0, !.argv = Vector(<<>>)],
    [InitOS EXCEPT !.argv = NULL] }

\* the job lists: job 0 runs in /a, job 1 in /b, and so on in turn; every
\* job but the last has one process; no more processes than the largest
\* allocation has
AppJobLists ==
  { l \in JobLists(LaunchJobs) :
      /\ SumProcs(l, Len(l)) <= MaxRanks
      /\ \A i \in DOMAIN l :
           /\ l[i].working_dir = IF i % 2 = 1 THEN <<47, 97>> ELSE <<47, 98>>
           /\ i < Len(l) => l[i].num_procs = 1 }

\* values of CRAM_BUFFER_SIZE: unset, "4096", "1", "0", "-5", "", "12x",
\* "abc", "x1", " 7", "+7", "007"
BufferValues ==
  { Unset, <<52, 48, 57, 54>>, <<49>>, <<48>>, <<45, 53>>, <<>>,
    <<49, 50, 120>>, <<97, 98, 99>>, <<120, 49>>, <<32, 55>>, <<43, 55>>,
    <<48, 48, 55>> }

\* a launch: the jobs, the allocation, the knobs and the processes
Launch(js, n, file, output, bufsize, p) ==
  [jobs |-> js, size |-> n, os |-> p,
   knobs |-> [CRAM_FILE |-> file, CRAM_OUTPUT |-> output,
              CRAM_BUFFER_SIZE |-> bufsize]]

\* launches of the job lists on every allocation; launches of one job of
\* one process with every value of CRAM_OUTPUT and every argv, and with
\* every value of CRAM_BUFFER_SIZE; launches without CRAM_FILE
AppLaunches ==
  { Launch(js, n, TRUE, o, Unset, InitOS) :
      js \in AppJobLists, n \in 1..MaxRanks, o \in OutputKnobs }
  \cup { Launch(js, 1, TRUE, o, Unset, p) :
           js \in [1..1 -> {j \in LaunchJobs : j.num_procs = 1}],
           o \in OutputValues, p \in StartedAs }
  \cup { Launch(js, 1, TRUE, Unset, b, InitOS) :
           js \in [1..1 -> {j \in LaunchJobs : j.num_procs = 1}],
           b \in BufferValues }
  \cup { Launch(js, n, FALSE, Unset, Unset, InitOS) :
           js \in [1..1 -> {j \in LaunchJobs : j.num_procs = 1}],
           n \in 1..MaxRanks }

AppInit ==
  /\ \E in \in AppLaunches :
       /\ jobs = in.jobs
       /\ size = in.size
       /\ knobs = in.knobs
       /\ LaunchInitFrom(in.os)
  /\ disk = PackedFile(jobs)
  /\ CatInit

\* MPI_Init, and an application that calls MPI_Finalize, exits or crashes
AppNext ==
  \/ \E r \in Ranks : MPI_Init_enter(r) /\ LaunchFrame
  \/ MPI_Init_open /\ LaunchFrame
  \/ bcast_jobs_check /\ LaunchFrame
  \/ bcast_jobs_first /\ LaunchFrame
  \/ bcast_jobs_next /\ LaunchFrame
  \/ bcast_jobs_isend /\ LaunchFrame
  \/ bcast_jobs_waitall /\ LaunchFrame
  \/ bcast_jobs_send_inactive /\ LaunchFrame
  \/ bcast_jobs_root_done /\ LaunchFrame
  \/ \E r \in Ranks : bcast_jobs_recv_size(r) /\ LaunchFrame
  \/ \E r \in Ranks : bcast_jobs_recv_first(r) /\ LaunchFrame
  \/ \E r \in Ranks : bcast_jobs_recv_id(r) /\ LaunchFrame
  \/ \E r \in Ranks : bcast_jobs_recv_record(r) /\ LaunchFrame
  \/ \E r \in Ranks : MPI_Init_split_enter(r) /\ LaunchFrame
  \/ \E r \in Ranks : MPI_Init_split_leave(r) /\ LaunchFrame
  \/ \E r \in Ranks : MPI_Init_inactive_barrier(r) /\ LaunchFrame
  \/ \E r \in Ranks : MPI_Init_inactive_exit(r) /\ LaunchFrame
  \/ \E r \in Ranks : MPI_Init_setup(r) /\ LaunchFrame
  \/ \E r \in Ranks : MPI_Init_return(r) /\ LaunchFrame
  \/ \E r \in Ranks : AppFinalize(r) /\ LaunchFrame
  \/ \E r \in Ranks : AppExit(r) /\ LaunchFrame
  \/ \E r \in Ranks : AppSegv(r) /\ LaunchFrame
  \/ \E r \in Ranks : Killed(r) /\ LaunchFrame

SpecApp == AppInit /\ [][AppNext]_vars

\* ------------------------------------------------------------------------
\* The launch under fair scheduling
\* ------------------------------------------------------------------------
\* launches of the job lists on every allocation, CRAM_OUTPUT not set
LiveInit ==
  /\ jobs \in AppJobLists
  /\ disk = PackedFile(jobs)
  /\ size \in 1..MaxRanks
  /\ knobs = [CRAM_FILE |-> TRUE, CRAM_OUTPUT |-> Unset,
              CRAM_BUFFER_SIZE |-> Unset]
  /\ LaunchInit
  /\ CatInit

\* the statements of rank r that read the container or decode a record:
\* cram_file_open, cram_file_next_job, cram_job_decompress
ReadStep(r) ==
  \/ r = 0 /\ (MPI_Init_open \/ bcast_jobs_first \/ bcast_jobs_next)
  \/ bcast_jobs_recv_first(r)
  \/ bcast_jobs_recv_id(r)
  \/ bcast_jobs_recv_record(r)

\* rank r is at one of these statements and what it waits for has arrived:
\* ENABLED ReadStep(r), written out
CanRead(r) ==
  /\ r \in Ranks
  /\ \/ r = 0 /\ proc[r].pc \in {"open", "read_first", "next_job"}
     \/ r # 0 /\ proc[r].pc = "bcast_first" /\ net.bcast_record.sent
     \/ r # 0 /\ proc[r].pc \in {"recv_id", "recv_record"}
              /\ net.chan[r] # <<>>

\* every other statement of MPI_Init on rank r and, on rank 0, of the
\* root's part of cram_file_bcast_jobs
PlainStep(r) ==
  \/ MPI_Init_enter(r)
  \/ r = 0 /\ (bcast_jobs_check \/ bcast_jobs_isend \/ bcast_jobs_waitall
                \/ bcast_jobs_send_inactive \/ bcast_jobs_root_done)
  \/ bcast_jobs_recv_size(r)
  \/ MPI_Init_split_enter(r) \/ MPI_Init_split_leave(r)
  \/ MPI_Init_inactive_barrier(r) \/ MPI_Init_inactive_exit(r)
  \/ MPI_Init_setup(r) \/ MPI_Init_return(r)

\* MPI_Init up to its return; the application is not run
LiveNext ==
  \/ \E r \in Ranks : MPI_Init_enter(r) /\ LaunchFrame
  \/ MPI_Init_open /\ LaunchFrame
  \/ bcast_jobs_check /\ LaunchFrame
  \/ bcast_jobs_first /\ LaunchFrame
  \/ bcast_jobs_next /\ LaunchFrame
  \/ bcast_jobs_isend /\ LaunchFrame
  \/ bcast_jobs_waitall /\ LaunchFrame
  \/ bcast_jobs_send_inactive /\ LaunchFrame
  \/ bcast_jobs_root_done /\ LaunchFrame
  \/ \E r \in Ranks : bcast_jobs_recv_size(r) /\ LaunchFrame
  \/ \E r \in Ranks : bcast_jobs_recv_first(r) /\ LaunchFrame
  \/ \E r \in Ranks : bcast_jobs_recv_id(r) /\ LaunchFrame
  \/ \E r \in Ranks : bcast_jobs_recv_record(r) /\ LaunchFrame
  \/ \E r \in Ranks : MPI_Init_split_enter(r) /\ LaunchFrame
  \/ \E r \in Ranks : MPI_Init_split_leave(r) /\ LaunchFrame
  \/ \E r \in Ranks : MPI_Init_inactive_barrier(r) /\ LaunchFrame
  \/ \E r \in Ranks : MPI_Init_inactive_exit(r) /\ LaunchFrame
  \/ \E r \in Ranks : MPI_Init_setup(r) /\ LaunchFrame
  \/ \E r \in Ranks : MPI_Init_return(r) /\ LaunchFrame
  \/ \E r \in Ranks : Killed(r) /\ LaunchFrame

\* every rank is a process of its own that keeps running: a statement that
\* stays enabled is executed.  Messages and collectives are delivered by
\* the state of net, which no step loses.  For the statements that read or
\* decode, weak fairness is stated with its ENABLED written out as CanRead.
Fairness ==
  \A r \in 0..(MaxRanks - 1) :
     /\ WF_vars(r \in Ranks /\ PlainStep(r) /\ LaunchFrame)
     /\ \/ []<>(~CanRead(r))
        \/ []<><<r \in Ranks /\ ReadStep(r) /\ LaunchFrame>>_vars

SpecLive == LiveInit /\ [][LiveNext]_vars /\ Fairness

\* ------------------------------------------------------------------------
\* The partitioner with a job of more ranks than the send window
\* ------------------------------------------------------------------------
\* how far the second job's process count goes beyond MAX_CONCURRENT_PEERS
MaxBeyondWindow == 1

\* line 1065: the first rank root sends to
WindowPeer == jobs[1].num_procs

\* job 0 on one process in /a, job 1 in /b on about MAX_CONCURRENT_PEERS
\* processes, launched on one rank more than the jobs need
WindowInit ==
  /\ \E l \in AppJobLists,
        w \in (MAX_CONCURRENT_PEERS - 1)
                ..(MAX_CONCURRENT_PEERS + MaxBeyondWindow) :
        /\ Len(l) = 2 /\ l[2].num_procs = 1
        /\ jobs = [l EXCEPT ![2].num_procs = w]
  /\ disk = PackedFile(jobs)
  /\ size = SumProcs(jobs, Len(jobs)) + 1
  /\ knobs = [CRAM_FILE |-> TRUE, CRAM_OUTPUT |-> Unset,
              CRAM_BUFFER_SIZE |-> Unset]
  /\ LaunchInit
  /\ CatInit

\* root up to its return from cram_file_bcast_jobs, and the first rank it
\* sends to
WindowNext ==
  \/ \E r \in {0, WindowPeer} : MPI_Init_enter(r) /\ LaunchFrame
  \/ MPI_Init_open /\ LaunchFrame
  \/ bcast_jobs_check /\ LaunchFrame
  \/ bcast_jobs_first /\ LaunchFrame
  \/ bcast_jobs_next /\ LaunchFrame
  \/ bcast_jobs_isend /\ LaunchFrame
  \/ bcast_jobs_waitall /\ LaunchFrame
  \/ bcast_jobs_send_inactive /\ LaunchFrame
  \/ bcast_jobs_root_done /\ LaunchFrame
  \/ bcast_jobs_recv_size(WindowPeer) /\ LaunchFrame
  \/ bcast_jobs_recv_first(WindowPeer) /\ LaunchFrame
  \/ bcast_jobs_recv_id(WindowPeer) /\ LaunchFrame
  \/ bcast_jobs_recv_record(WindowPeer) /\ LaunchFrame

SpecWindow == WindowInit /\ [][WindowNext]_vars

\* ------------------------------------------------------------------------
\* The partitioner with several jobs after job 0
\* ------------------------------------------------------------------------
\* MaxJobs + 1 jobs of one process each, in /a and /b in turn, launched on
\* one rank less than they need, as many, or one more
ReuseInit ==
  /\ jobs \in { l \in [1..(MaxJobs + 1) -> LaunchJobs] :
                  \A i \in DOMAIN l :
                     /\ l[i].num_procs = 1
                     /\ l[i].working_dir = IF i % 2 = 1 THEN <<47, 97>>
                                           ELSE <<47, 98>> }
  /\ disk = PackedFile(jobs)
  /\ size \in MaxJobs..(MaxJobs + 2)
  /\ knobs = [CRAM_FILE |-> TRUE, CRAM_OUTPUT |-> Unset,
              CRAM_BUFFER_SIZE |-> Unset]
  /\ LaunchInit
  /\ CatInit

SpecReuse == ReuseInit /\ [][LiveNext]_vars

\* ------------------------------------------------------------------------
\* Properties
\* ------------------------------------------------------------------------
\* the header's total_procs of the packed file
TotalProcs == SumProcs(jobs, Len(jobs))

\* rank r is in the contiguous range of job j (0-based, submission order)
InRange(r, j) == SumProcs(jobs, j) <= r /\ r < SumProcs(jobs, j + 1)

\* the partition map
Assign(r) == CHOOSE j \in 0..(Len(jobs) - 1) : InRange(r, j)

\* the file cannot be opened, or its first four bytes are not the magic
Unreadable ==
  \/ ~disk.exists
  \/ /\ Len(disk.bytes) >= 4
     /\ SubSeq(disk.bytes, 1, 4) # EncInt(MAGIC)

\* a container of LaunchInputs that is not unreadable is the one the packer
\* wrote for jobs
ReadableIsPacked == Unreadable \/ disk = PackedFile(jobs)

\* CRAM_FILE names the container the packer wrote for jobs
PackedLaunch == knobs.CRAM_FILE /\ ~Unreadable

\* rank r has returned from cram_file_bcast_jobs
AfterBcast(r) ==
  proc[r].pc \in {"split", "in_split", "inactive", "in_barrier_inactive",
                  "setup", "in_barrier", "app"}
  \/ (proc[r].pc = "exited" /\ os[r].finalized)

\* rank r holds the job descriptor cram_file_bcast_jobs gave it
HoldsJob(r) == proc[r].pc \in {"split", "in_split", "setup", "in_barrier"}

\* C1 (coverage): in a launch of a packed container on at least total_procs
\* ranks, a rank below total_procs that has returned from
\* cram_file_bcast_jobs holds job id j iff it lies in the contiguous range
\* of job j.
C1_Coverage ==
  (PackedLaunch /\ size >= TotalProcs) =>
    \A r \in Ranks :
      (r < TotalProcs /\ AfterBcast(r)) =>
        \A j \in 0..(Len(jobs) - 1) : (proc[r].job_id = j) <=> InRange(r, j)

\* two jobs, the second on two ranks: every rank is through the partitioner
C1_Witness ==
  /\ PackedLaunch /\ Len(jobs) = 2 /\ size = TotalProcs
  /\ jobs[2].num_procs = 2
  /\ \A r \in Ranks : AfterBcast(r)
  /\ proc[size - 1].job_id = 1

\* C2 (content parity): on every active rank the descriptor
\* cram_file_bcast_jobs produced equals the packed job of the rank's range
\* in num_procs, working_dir, args and env.
C2_ContentParity ==
  (PackedLaunch /\ size >= TotalProcs) =>
    \A r \in Ranks :
      (r < TotalProcs /\ HoldsJob(r)) => proc[r].cram_job = jobs[Assign(r) + 1]

\* a process that cram has not touched but for MPI_Finalize and exit
Untouched(r) ==
  [os[r] EXCEPT !.finalized = FALSE, !.finalize_calls = 0, !.status = -1]
    = InitOS

\* C3 (inactive ranks): a rank at or above total_procs gets job id -1, never
\* runs per-process setup, never reaches the application, and exits with 0.
C3_Inactive ==
  (PackedLaunch /\ size > TotalProcs) =>
    \A r \in Ranks :
      r >= TotalProcs =>
        /\ proc[r].pc \notin {"setup", "in_barrier", "app", "undefined",
                              "aborted"}
        /\ AfterBcast(r) => proc[r].job_id = -1
        /\ Untouched(r)
        /\ proc[r].pc = "exited" => os[r].status = 0

\* an inactive rank has received its id, passed the barrier and exited
C3_Witness ==
  /\ PackedLaunch /\ size > TotalProcs
  /\ proc[size - 1].pc = "exited"
  /\ proc[size - 1].job_id = -1

\* C4 (codec round trip): cram-cat of a packed container yields the packed
\* descriptors, as many and in the same order.
C4_RoundTrip == cat.pc = "done" => cat.out = jobs

\* C5 (delta law): decompress of the first job's environment with the
\* subtracted keys and changed pairs of job i is the environment of job i.
C5_DeltaLaw ==
  delta.job # 0 =>
    /\ ~delta.ub
    /\ delta.keys = jobs[delta.job].keys
    /\ delta.values = jobs[delta.job].values

\* the global ranks of job j in ascending order
RangeOf(j) == [i \in 1..jobs[j + 1].num_procs |-> SumProcs(jobs, j) + i - 1]

\* C6 (local world): after the initializer the local_world of a rank of job
\* j has exactly the ranks of j's range as members, and the local rank of
\* global rank r is r minus the first rank of its job.
C6_LocalWorld ==
  (PackedLaunch /\ size >= TotalProcs) =>
    \A r \in Ranks :
      (r < TotalProcs /\ proc[r].pc = "app") =>
        /\ proc[r].local_world.members = RangeOf(Assign(r))
        /\ proc[r].local_rank = r - SumProcs(jobs, Assign(r))

\* the second rank of the second job is in the application
C6_Witness ==
  /\ PackedLaunch /\ Len(jobs) = 2 /\ size >= TotalProcs
  /\ proc[TotalProcs - 1].pc = "app"
  /\ proc[TotalProcs - 1].local_rank = 1
  /\ proc[TotalProcs - 1].job_id = 1

\* C7 (world substitution): an interceptor passes local_world for every
\* communicator argument that is MPI_COMM_WORLD and every other
\* communicator argument unchanged.
C7_WorldSubstitution ==
  lastCall.rank # -1 =>
    \A i \in DOMAIN lastCall.given :
      lastCall.passed[i] =
        IF lastCall.given[i] = MPI_COMM_WORLD
        THEN proc[lastCall.rank].local_world
        ELSE lastCall.given[i]

\* a call with MPI_COMM_WORLD and another communicator on a rank whose
\* local_world is not MPI_COMM_WORLD
C7_Witness ==
  /\ lastCall.rank # -1
  /\ proc[lastCall.rank].local_world # MPI_COMM_WORLD
  /\ Len(lastCall.given) = 2
  /\ lastCall.given[1] = MPI_COMM_WORLD
  /\ lastCall.given[2] = MPI_COMM_SELF(lastCall.rank)

\* no broadcast and no send of the partitioner was issued
NoPartitionerTraffic ==
  /\ ~net.bcast_size.sent
  /\ ~net.bcast_record.sent
  /\ \A r \in Ranks : net.chan[r] = <<>>

\* C8 (capacity error): when the header's total_procs exceeds the size of
\* the communicator, root aborts before any broadcast or send, and no rank
\* gets a job id, runs setup or starts the application.
C8_CapacityError ==
  (PackedLaunch /\ TotalProcs > size) =>
    /\ NoPartitionerTraffic
    /\ proc[0].pc \in {"start", "open", "check", "aborted"}
    /\ (proc[0].pc = "aborted") <=> (abort.called /\ abort.rank = 0)
    /\ \A r \in Ranks :
         /\ proc[r].pc \in {"start", "open", "check", "bcast_size",
                            "aborted", "killed"}
         /\ proc[r].job_id = -1
         /\ os[r] = InitOS

\* root has aborted on the capacity check
C8_Witness ==
  /\ PackedLaunch /\ TotalProcs > size
  /\ abort.called /\ abort.code = 1
  /\ root.cram_file.fd = "open"

\* C9 (disabled mode): with CRAM_FILE unset the initializer sets local_world
\* to MPI_COMM_WORLD and returns; no file is opened, nothing is sent or
\* received, no split or barrier is entered, and the process is untouched.
C9_Disabled ==
  ~knobs.CRAM_FILE =>
    /\ root.cram_file = NoFile
    /\ NoPartitionerTraffic /\ net.split = {} /\ net.barrier = {}
    /\ ~abort.called
    /\ \A r \in Ranks :
         /\ proc[r].pc \in {"start", "app"}
         /\ proc[r].pc = "app" => proc[r].local_world = MPI_COMM_WORLD
         /\ os[r] = InitOS

\* every rank has returned from the initializer in disabled mode
C9_Witness ==
  /\ ~knobs.CRAM_FILE
  /\ size > 1
  /\ \A r \in Ranks : proc[r].pc = "app"

\* C10 (unreadable container): when CRAM_FILE is set and the file cannot be
\* opened or does not start with the magic, root aborts, and no rank
\* reaches the split, per-process setup or the application.
C10_Unreadable ==
  (knobs.CRAM_FILE /\ Unreadable) =>
    /\ proc[0].pc \in {"start", "open", "aborted"}
    /\ (proc[0].pc = "aborted") <=> (abort.called /\ abort.rank = 0)
    /\ net.split = {}
    /\ \A r \in Ranks :
         /\ proc[r].pc \in {"start", "open", "bcast_size", "aborted",
                            "killed"}
         /\ os[r] = InitOS

\* root has aborted on a file without the magic, the other ranks are ended
C10_Witness ==
  /\ knobs.CRAM_FILE /\ disk.exists /\ Unreadable
  /\ size > 1
  /\ abort.called
  /\ \A r \in Ranks \ {0} : proc[r].pc = "killed"

\* the container is the packed one cut short: some read of root fails
Truncated ==
  /\ disk.exists
  /\ Len(disk.bytes) < Len(EncContainer(jobs))
  /\ disk.bytes = SubSeq(EncContainer(jobs), 1, Len(disk.bytes))

\* C11 (I/O errors abort): when the container is cut short, in a header
\* field, in a length prefix or in the bytes of a record, root stops only by
\* calling PMPI_Abort, and no rank reaches the application.
C11_ReadFailureAborts ==
  (knobs.CRAM_FILE /\ Truncated) =>
    /\ proc[0].pc \in {"start", "open", "check", "read_first", "next_job",
                       "isend", "aborted"}
    /\ (proc[0].pc = "aborted") <=> (abort.called /\ abort.rank = 0)
    /\ \A r \in Ranks : proc[r].pc # "app"

\* C12 (abort status): every PMPI_Abort of the launch, after an open
\* failure, a bad magic, a capacity error, an oversize or short record or a
\* delta without base, is called with a non-zero error code.
C12_NonZeroAbort == abort.called => abort.code # 0

\* root is about to call cram_file_next_job
RootReads ==
  \/ proc[0].pc = "read_first"
  \/ proc[0].pc = "next_job" /\ cram_file_has_more_jobs(root.cram_file)

\* the length prefix at the position of root's file is, as the unsigned int
\* of the container format, greater than the header's max_job_size
OversizePrefix ==
  LET prefix == file_read_int(disk.bytes, root.cram_file.pos)
  IN  prefix.ok
      /\ (prefix.val < 0 \/ prefix.val > root.cram_file.max_job_size)

\* C13 (oversize record): on a length prefix greater than max_job_size
\* cram_file_next_job returns false and leaves the caller's buffer as it
\* was, nothing is written outside the buffer, and root ends by PMPI_Abort.
C13_OversizeRecord ==
  /\ (RootReads /\ OversizePrefix) =>
       LET n == cram_file_next_job(disk, root.cram_file, proc[0].job_record)
       IN  ~n.ret /\ ~n.exit /\ ~n.ub /\ n.job_record = proc[0].job_record
  /\ disk \in OversizeFiles(jobs) =>
       /\ proc[0].pc \in {"start", "open", "check", "read_first", "next_job",
                          "isend", "aborted"}
       /\ \A r \in Ranks : proc[r].pc # "app"

\* C14 (bad string length): when a string of a record is said to be longer
\* than the rest of the record, no rank decodes beyond the record buffer,
\* and the launch is aborted: no rank reaches the application.
C14_BadStringLength ==
  disk \in BadStringFiles(jobs) =>
    \A r \in Ranks : proc[r].pc \notin {"undefined", "app"}

\* rank r is in the application of its job, cram's handlers installed
InJob(r) == proc[r].pc = "app" /\ os[r].handlers

\* a step leaves every rank but r as it is
OthersUnchanged(r) ==
  \A q \in Ranks \ {r} : proc'[q] = proc[q] /\ os'[q] = os[q]

\* C15 (exit masking): when the application of an active rank calls exit
\* with a non-zero status after MPI_Init, the process ends with status 0 and
\* no other rank changes.
C15_ExitMasking ==
  [][\A r \in Ranks : \A status \in {1, 2} :
       (InJob(r) /\ AppExitStatus(r, status)) =>
         /\ proc'[r].pc = "exited"
         /\ os'[r].status = 0
         /\ OthersUnchanged(r)]_vars

\* C16 (crash containment): when an active rank takes a segmentation fault
\* after MPI_Init, one line with its local rank and job id is added to the
\* preserved error stream, the runtime is finalized, the process exits with
\* 0, and no other rank changes.
C16_CrashContainment ==
  [][\A r \in Ranks :
       (InJob(r) /\ AppSegv(r)) =>
         /\ proc'[r].pc = "exited"
         /\ os'[r].status = 0
         /\ os'[r].finalized
         /\ proc[r].original_stderr # NullStream
         /\ os'[r].log =
              Append(os[r].log,
                     [stream |-> proc[r].original_stderr,
                      what |-> "died with signal",
                      local_rank |-> proc[r].local_rank,
                      job_id |-> proc[r].job_id, code |-> 11])
         /\ OthersUnchanged(r)]_vars

\* the stream the messages of the handlers of rank r belong on: the
\* per-process error file in mode ALL, else the stream the process had
ErrorStream(r) ==
  IF proc[r].cram_output_mode = "all"
  THEN fopen(FileName("cram", proc[r].job_id, proc[r].local_rank, "err"),
             os[r].cwd)
  ELSE SystemStream

\* C17 (error stream per mode): once the handlers are installed, the
\* preserved stream is the original error stream in the modes SYSTEM, NONE
\* and RANK0 and the file cram.<job>.<rank>.err in mode ALL, and every line
\* of the handlers is written to it.
C17_ErrorStream ==
  \A r \in Ranks :
    os[r].handlers =>
      /\ proc[r].original_stderr = ErrorStream(r)
      /\ \A i \in DOMAIN os[r].log : os[r].log[i].stream = ErrorStream(r)

\* the file cram.<j>.<ext> or cram.<j>.<l>.<ext> in the job's directory, or
\* the null device
JobFile(r, perRank, ext) ==
  fopen(FileName("cram", proc[r].job_id,
                 IF perRank THEN proc[r].local_rank ELSE -1, ext), os[r].cwd)
Null(r) == fopen(DevNull, os[r].cwd)

Spells(value, name) ==
  /\ Len(value) = Len(name)
  /\ \A i \in DOMAIN name :
       \/ value[i] = name[i]
       \/ name[i] \in 65..90 /\ value[i] = name[i] + 32

\* C19 (output mode selection): the mode is SYSTEM, NONE or ALL when
\* CRAM_OUTPUT spells that name in any mix of cases, and RANK0 when it
\* spells RANK0, is unset or holds anything else.
C19_ModeSelection ==
  \A r \in Ranks :
    (knobs.CRAM_FILE /\ proc[r].pc \in {"in_barrier", "app"}) =>
      proc[r].cram_output_mode =
        IF knobs.CRAM_OUTPUT = Unset THEN "rank0"
        ELSE IF Spells(knobs.CRAM_OUTPUT, <<83, 89, 83, 84, 69, 77>>)
        THEN "system"
        ELSE IF Spells(knobs.CRAM_OUTPUT, <<78, 79, 78, 69>>) THEN "none"
        ELSE IF Spells(knobs.CRAM_OUTPUT, <<65, 76, 76>>) THEN "all"
        ELSE "rank0"

\* CRAM_OUTPUT is "sYsTeM" and the mode is SYSTEM; the streams are untouched
C19_Witness ==
  /\ knobs.CRAM_OUTPUT = <<115, 89, 115, 84, 101, 77>>
  /\ proc[0].pc = "app"
  /\ proc[0].cram_output_mode = "system"
  /\ os[0].stderr = SystemStream

\* C20 (argument replacement): cram_job_setup sets argc to the job's
\* num_args and argv[i] to args[i] for every i, but argv[0] to the prior
\* argv[0] when args[0] is "<exe>" and the prior argc was positive and the
\* prior argv not NULL.
C20_ArgumentReplacement ==
  [][\A r \in Ranks :
       (proc[r].pc = "setup" /\ proc'[r].pc = "in_barrier") =>
         LET job == proc[r].cram_job
             available == os[r].argc > 0 /\ os[r].argv # NULL
         IN  /\ os'[r].argc = Len(job.args)
             /\ os'[r].argv # NULL
             /\ Len(os'[r].argv.v) = Len(job.args)
             /\ \A i \in DOMAIN job.args :
                  os'[r].argv.v[i] =
                    IF i = 1 /\ job.args[1] = CRAM_DEFAULT_EXE /\ available
                    THEN os[r].argv.v[1] ELSE job.args[i]]_vars

\* the job's args are ["<exe>", "1"], the process was started as "./t":
\* after cram_job_setup argv is ["./t", "1"]
C20_Witness ==
  /\ proc[0].pc = "in_barrier"
  /\ proc[0].cram_job.args = <<CRAM_DEFAULT_EXE, <<49>> >>
  /\ os[0].argc = 2
  /\ os[0].argv = Vector(<< <<46, 47, 116>>, <<49>> >>)

\* ------------------------------------------------------------------------
\* C21: cram_job_setup puts every variable of the job the rank holds into
\* the environment of the process: after the call the environment maps each
\* key of the job to the job's value, whatever the key was set to when the
\* process was launched.
\* ------------------------------------------------------------------------
InEnviron(job, environ) ==
  \A i \in DOMAIN job.keys :
     /\ job.keys[i] \in DOMAIN environ
     /\ environ[job.keys[i]] = job.values[i]

C21_EnvOverwrite ==
  [][\A r \in Ranks :
       (proc[r].pc = "setup" /\ proc'[r].pc = "in_barrier")
         => InEnviron(proc[r].cram_job, os'[r].environ)]_vars

\* a rank after cram_job_setup whose job sets X, which the launch
\* environment set to another value
C21_Witness ==
  \E r \in Ranks :
     /\ proc[r].pc = "in_barrier"
     /\ \E i \in DOMAIN proc[r].cram_job.keys :
          /\ proc[r].cram_job.keys[i] = <<88>>
          /\ proc[r].cram_job.values[i] # LaunchEnv[<<88>>]
     /\ InEnviron(proc[r].cram_job, os[r].environ)

\* ------------------------------------------------------------------------
\* C22: the buffer of the stream the container is read through is
\* 2*1024*1024 bytes when CRAM_BUFFER_SIZE is not set, the given number when
\* it is a positive decimal integer, and 2*1024*1024 bytes with a warning on
\* rank 0 when it is empty, not a number, a number followed by other
\* characters, zero or negative.
\* ------------------------------------------------------------------------
\* the decimal number a string of digits stands for
RECURSIVE Decimal(_)
Decimal(str) ==
  IF str = <<>> THEN 0
  ELSE 10 * Decimal(SubSeq(str, 1, Len(str) - 1)) + (str[Len(str)] - 48)

\* a string of digits that stands for a positive number
PositiveDecimal(str) ==
  /\ str # Unset /\ str # <<>>
  /\ \A i \in DOMAIN str : str[i] \in 48..57
  /\ Decimal(str) > 0

\* a value the claim calls invalid: empty, zero, negative, not a number,
\* or a number followed by other characters
InvalidBufferSize(str) ==
  /\ str # Unset
  /\ \/ str = <<>>
     \/ \A i \in DOMAIN str : str[i] = 48
     \/ str[1] = 45
     \/ str[1] \notin 48..57 \cup {32, 43}
     \/ str[Len(str)] \notin 48..57

Warned == "Warning: Invalid value for CRAM_BUFFER_SIZE"

C22_ReadBuffer ==
  root.buffer # NoBuffer =>
    /\ knobs.CRAM_BUFFER_SIZE = Unset
          => root.buffer = [size |-> 2 * 1024 * 1024, said |-> ""]
    /\ PositiveDecimal(knobs.CRAM_BUFFER_SIZE)
          => root.buffer.size = Decimal(knobs.CRAM_BUFFER_SIZE)
    /\ InvalidBufferSize(knobs.CRAM_BUFFER_SIZE)
          => root.buffer = [size |-> 2 * 1024 * 1024, said |-> Warned]

\* ------------------------------------------------------------------------
\* C23: decoding a record that subtracts keys (num_subtracted > 0) without
\* a base descriptor is fatal: the rank that decodes it calls PMPI_Abort
\* and gets no further.  A record decoded without a base whose
\* num_subtracted is 0 gives a job whose environment is the record's list
\* of changed (key, value) pairs, in the order of the record.
\* ------------------------------------------------------------------------
\* rank r has not yet decoded record 0
BeforeFirstDecode(r) ==
  proc[r].pc \in {"start", "open", "check", "read_first", "bcast_size",
                  "bcast_first"}

C23_MissingBase ==
  /\ disk = NoBaseFile(jobs) =>
       /\ \A r \in Ranks :
            BeforeFirstDecode(r) \/ proc[r].pc \in {"aborted", "killed"}
       /\ abort.called => abort.code = 1
  /\ disk = PackedFile(jobs) =>
       \A r \in Ranks :
          proc[r].first_job # NoJob =>
            /\ proc[r].first_job.keys = jobs[1].keys
            /\ proc[r].first_job.values = jobs[1].values

\* a rank other than root decoded a first record that subtracts a key and
\* called PMPI_Abort
C23_Witness ==
  /\ disk = NoBaseFile(jobs)
  /\ \E r \in Ranks \ {0} : proc[r].pc = "aborted" /\ abort.rank = r
  /\ abort.code = 1

\* ------------------------------------------------------------------------
\* C24: the launch of a well-formed container that needs no more processes
\* than the allocation has terminates under fair scheduling: eventually
\* every active rank has returned from MPI_Init and every inactive rank has
\* exited, and every rank has entered the communicator split and the final
\* barrier.  No rank enters the split or the barrier a second time.
\* ------------------------------------------------------------------------
WellFormedLaunch ==
  knobs.CRAM_FILE /\ disk = PackedFile(jobs) /\ TotalProcs <= size

Launched ==
  /\ \A r \in Ranks :
       IF r < TotalProcs THEN proc[r].pc = "app"
       ELSE proc[r].pc = "exited" /\ os[r].status = 0
  /\ net.split = Ranks
  /\ net.barrier = Ranks

\* rank r calls PMPI_Comm_split, PMPI_Barrier
EntersSplit(r) == proc[r].pc = "split" /\ proc'[r].pc = "in_split"
EntersBarrier(r) ==
  \/ proc[r].pc = "inactive" /\ proc'[r].pc = "in_barrier_inactive"
  \/ proc[r].pc = "setup" /\ proc'[r].pc = "in_barrier"

C24_LaunchTerminates ==
  /\ WellFormedLaunch ~> Launched
  /\ [][\A r \in Ranks :
          /\ EntersSplit(r) => r \notin net.split /\ r \in net.split'
          /\ EntersBarrier(r) => r \notin net.barrier /\ r \in net.barrier'
          /\ net.split \subseteq net.split'
          /\ net.barrier \subseteq net.barrier']_vars

\* a launch of two jobs and an inactive rank that has come to its end
C24_Witness ==
  /\ WellFormedLaunch
  /\ Len(jobs) >= 2 /\ TotalProcs < size
  /\ Launched

\* ------------------------------------------------------------------------
\* C25: when the allocation has more ranks than the container needs, every
\* inactive rank has exited with code 0 before any active rank returns
\* from MPI_Init into the application.
\* ------------------------------------------------------------------------
\* an active rank has returned from MPI_Init
AppStarted == \E r \in Ranks : r < TotalProcs /\ proc[r].pc = "app"

PastSplit(q) ==
  /\ q \in net.split /\ q \in net.barrier
  /\ proc[q].pc \in {"in_barrier_inactive", "in_barrier", "app"}
     \/ (proc[q].pc = "exited" /\ os[q].finalized)

\* cram_job_setup has run in the process of rank q
SetUp(q) ==
  /\ proc[q].pc \in {"in_barrier", "app"}
  /\ os[q].cram_argv # <<>>
  /\ os[q].cwd # LaunchDir

C26_BarrierOrder ==
  (knobs.CRAM_FILE /\ \E r \in Ranks : proc[r].pc = "app") =>
    \A q \in Ranks :
       /\ PastSplit(q)
       /\ IF q < TotalProcs THEN proc[q].job_id >= 0 /\ SetUp(q)
          ELSE proc[q].job_id = -1

\* rank 0 is in the application, another active rank has run
\* cram_job_setup and is still in the barrier, and a rank is inactive
C26_Witness ==
  /\ knobs.CRAM_FILE
  /\ proc[0].pc = "app"
  /\ \E q \in Ranks : q < TotalProcs /\ proc[q].pc = "in_barrier" /\ SetUp(q)
  /\ \E q \in Ranks : q >= TotalProcs /\ PastSplit(q)

\* ------------------------------------------------------------------------
\* C27: on every rank the broadcast of max_job_size is complete before the
\* rank takes part in the broadcast of record 0, and root sends no job id
\* and no record to a rank before it has broadcast record 0.
\* ------------------------------------------------------------------------
\* root sends to rank r in this step
SendsTo(r) == Len(net'.chan[r]) > Len(net.chan[r])

\* the order of the phases on one step
InPhaseOrder ==
  /\ (~net.bcast_record.sent /\ net'.bcast_record.sent)
       => /\ net.bcast_size.sent
          /\ proc[0].max_job_size = net.bcast_size.data
  /\ \A r \in Ranks \ {0} :
       (proc[r].pc = "bcast_first" /\ proc'[r].pc \in {"recv_id", "split"})
         => /\ net.bcast_size.sent /\ net.bcast_record.sent
            /\ proc[r].max_job_size = net.bcast_size.data
  /\ \A r \in Ranks :
       (/\ proc[r].pc # "bcast_first" /\ proc'[r].pc # proc[r].pc
        /\ proc'[r].pc \in {"recv_id", "split"})
         => proc[r].pc \in {"recv_id", "recv_record", "send_inactive"}
  /\ \A r \in Ranks : SendsTo(r) => net.bcast_record.sent

C27_PhaseOrder == [][InPhaseOrder]_vars

\* both broadcasts are complete on rank r, which waits for its job id, and
\* root has sent it
C27_Witness ==
  \E r \in Ranks \ {0} :
     /\ proc[r].pc = "recv_id" /\ net.chan[r] # <<>>
     /\ net.bcast_size.sent /\ net.bcast_record.sent
     /\ proc[r].max_job_size = net.bcast_size.data

\* ------------------------------------------------------------------------
\* C28: on a rank of a job j >= 1 the first receive, of one int, takes
\* root's job-id message and the second receive takes root's record
\* message, although root posts both as non-blocking sends with the same
\* tag and both can be in flight together.
\* ------------------------------------------------------------------------
\* rank r completes the receive it is in at position pc
Receives(r, pc) ==
  proc[r].pc = pc /\ proc'[r].pc \notin {pc, "killed"}

IdThenRecord ==
  \A r \in Ranks \ {0} :
     LET m == Head(net.chan[r])
     IN  /\ Receives(r, "recv_id") =>
              /\ m.tag = CRAM_TAG /\ m.type = "MPI_INT" /\ m.count = 1
              /\ proc'[r].pc # "aborted"
              /\ m.data[1] >= 0 =>
                    /\ proc'[r].pc = "recv_record"
                    /\ proc'[r].job_id = m.data[1]
                    /\ InRange(r, m.data[1])
         /\ Receives(r, "recv_record") =>
              /\ m.tag = CRAM_TAG /\ m.type = "MPI_CHAR"
              /\ m.count <= proc[r].max_job_size
              /\ proc'[r].pc = "split"
              /\ proc'[r].cram_job.num_procs
                   = jobs[proc[r].job_id + 1].num_procs
              /\ proc'[r].cram_job.working_dir
                   = jobs[proc[r].job_id + 1].working_dir

C28_IdBeforeRecord ==
  /\ [][PackedLaunch => IdThenRecord]_vars
  /\ [](PackedLaunch => abort.code # 15)

\* one rank has received its id and its record, in that order, and for
\* another both messages are in flight
C28_Witness ==
  /\ PackedLaunch
  /\ \E r \in Ranks :
       proc[r].job_id >= 1 /\ proc[r].pc = "split" /\ net.chan[r] = <<>>
  /\ \E r \in Ranks :
       /\ proc[r].pc = "recv_id" /\ Len(net.chan[r]) = 2
       /\ net.chan[r][1].type = "MPI_INT"
       /\ net.chan[r][2].type = "MPI_CHAR"

\* ------------------------------------------------------------------------
\* C29: in a complete run root sends to each rank outside job 0 exactly one
\* job-id message, to each active such rank exactly one record message,
\* that of its own job, and to an inactive rank no record; it sends nothing
\* to itself or to the other ranks of job 0; and when all ranks have left
\* the partitioner no message of root is unreceived.
\* ------------------------------------------------------------------------
\* the messages of one MPI type in flight to rank r
InFlight(r, type) == {i \in DOMAIN net.chan[r] : net.chan[r][i].type = type}

\* the receives of lines 1107 and 1109 that rank r has completed
ReceivedId(r) ==
  IF r # 0 /\ ~InFirstJob(r, jobs[1].num_procs)
          /\ (proc[r].pc = "recv_record" \/ AfterBcast(r))
  THEN 1 ELSE 0

ReceivedRecord(r) ==
  IF r # 0 /\ ~InFirstJob(r, jobs[1].num_procs)
          /\ AfterBcast(r) /\ proc[r].job_id >= 0
  THEN 1 ELSE 0

\* what root has sent to rank r: what r received and what is in flight
IdsSent(r) == ReceivedId(r) + Cardinality(InFlight(r, "MPI_INT"))
RecordsSent(r) == ReceivedRecord(r) + Cardinality(InFlight(r, "MPI_CHAR"))

\* no rank was stopped by PMPI_Abort
Running == \A r \in Ranks : proc[r].pc \notin {"killed", "aborted"}

C29_ExactlyOnce ==
  (PackedLaunch /\ TotalProcs <= size /\ Running) =>
    /\ \A r \in Ranks :
         /\ (r = 0 \/ InRange(r, 0)) => net.chan[r] = <<>>
         /\ IdsSent(r) <= 1 /\ RecordsSent(r) <= 1
         /\ r >= TotalProcs =>
              /\ RecordsSent(r) = 0
              /\ \A i \in InFlight(r, "MPI_INT") :
                    net.chan[r][i].data = <<-1>>
         /\ (r < TotalProcs /\ ~InRange(r, 0)) =>
              /\ \A i \in InFlight(r, "MPI_INT") :
                    net.chan[r][i].data = <<Assign(r)>>
              /\ \A i \in InFlight(r, "MPI_CHAR") :
                    net.chan[r][i].data = RecordOf(jobs, Assign(r) + 1)
              /\ AfterBcast(r) => proc[r].job_id = Assign(r)
         /\ (AfterBcast(0) /\ r # 0 /\ ~InRange(r, 0)) =>
              /\ IdsSent(r) = 1
              /\ RecordsSent(r) = IF r < TotalProcs THEN 1 ELSE 0
    /\ (\A r \in Ranks : AfterBcast(r)) =>
         \A r \in Ranks : net.chan[r] = <<>>

\* a complete run with a rank of a later job and an inactive rank
C29_Witness ==
  /\ PackedLaunch /\ TotalProcs < size /\ Len(jobs) > 1
  /\ \A r \in Ranks : AfterBcast(r) /\ net.chan[r] = <<>>
  /\ \E r \in Ranks : proc[r].job_id >= 1
  /\ \E r \in Ranks : proc[r].job_id = -1 /\ IdsSent(r) = 1

\* ------------------------------------------------------------------------
\* C30: at every point of the partitioner root has at most 2 * 512 = 1024
\* incomplete non-blocking send requests, two for each of at most 512
\* peers; when the window is full, and at the end of a job's rank range,
\* root waits for all of them before it issues another.
\* ------------------------------------------------------------------------
\* the peers of the requests that are not yet waited for
WindowPeers == (root.cur_rank - (root.r \div 2))..(root.cur_rank - 1)

\* root issues two more requests
Issues == root'.r > root.r

WithinWindow ==
  /\ root.r <= 1024
  /\ root.r % 2 = 0
  /\ Cardinality(WindowPeers) <= 512
  /\ proc[0].pc # "isend" => root.r = 0

WaitsWhenFull ==
  /\ Issues => root.r < 1024 /\ root.cur_rank < root.end_rank
                /\ root'.r = root.r + 2
  /\ (proc[0].pc = "isend" /\ proc'[0] # proc[0]
       /\ (root.r = 1024 \/ root.cur_rank = root.end_rank))
       => root'.r = 0 /\ root'.cur_rank = root.cur_rank

C30_SendWindow == [](WithinWindow) /\ [][WaitsWhenFull]_vars

\* root has filled the window, waited, and issued the requests of one peer
\* more of the same job
C30_Witness ==
  /\ proc[0].pc = "isend"
  /\ root.r = 2
  /\ root.cur_rank = jobs[1].num_procs + MAX_CONCURRENT_PEERS + 1

\* ------------------------------------------------------------------------
\* C31: root does not read the next record into the record buffer, and does
\* not advance cur_job_id, while a non-blocking send that refers to the
\* buffer or to cur_job_id is incomplete; every receiver of job j is sent
\* the id and the bytes of job j, not those of a later job.
\* ------------------------------------------------------------------------
\* what a send posted now would transfer
BufferNow(type) ==
  IF type = "MPI_INT" THEN <<root.cram_file.cur_job_id>>
  ELSE SubSeq(proc[0].job_record, 1, root.cram_file.cur_job_record_size)

\* the buffers of the requests not yet waited for hold what was posted
BufferHeld ==
  \A p \in WindowPeers \cap Ranks :
     \A i \in DOMAIN net.chan[p] :
        net.chan[p][i].data = BufferNow(net.chan[p][i].type)

\* a step that writes the record buffer or cur_job_id
WritesBuffer ==
  \/ proc'[0].job_record # proc[0].job_record
  \/ root'.cram_file.cur_job_id # root.cram_file.cur_job_id

SentOwnJob ==
  \A r \in Ranks :
     (r < TotalProcs /\ ~InRange(r, 0)) =>
        \A i \in DOMAIN net.chan[r] :
           net.chan[r][i].data =
             IF net.chan[r][i].type = "MPI_INT" THEN <<Assign(r)>>
             ELSE RecordOf(jobs, Assign(r) + 1)

C31_NoBufferReuse ==
  /\ [](proc[0].pc # "isend" => root.r = 0)
  /\ [](BufferHeld /\ (TotalProcs <= size => SentOwnJob))
  /\ [][WritesBuffer => root.r = 0]_vars

\* root has read the record of the job after next into the buffer while
\* the messages of the job before are still in flight
C31_Witness ==
  /\ proc[0].pc = "isend"
  /\ root.cram_file.cur_job_id = 2
  /\ root.r = 0
  /\ \E r \in Ranks :
       /\ Len(net.chan[r]) = 2
       /\ net.chan[r][1].data = <<1>>
       /\ net.chan[r][2].data # BufferNow("MPI_CHAR")

\* ------------------------------------------------------------------------
\* C32: for sorted inputs, a key listed in subtracted that is not a key of
\* base has no effect on the result of decompress: the output is the same
\* environment as with that key removed from subtracted, and no base or
\* changed entry is lost.
\* ------------------------------------------------------------------------
\* a list of keys without the key k
Without(keys, k) == SelectSeq(keys, LAMBDA x : x # k)

\* the keys of a list
KeySet(keys) == {keys[i] : i \in DOMAIN keys}

\* the result of decompress on the inputs of delta with another list of
\* subtracted keys
Decompressed(missing) ==
  decompress(delta.base, Len(missing), missing,
             delta.changed_keys, delta.changed_vals)

\* the value the key k has in the output
Output(k) ==
  {delta.values[i] : i \in {j \in DOMAIN delta.keys : delta.keys[j] = k}}

\* every changed pair, and every base pair that is neither changed nor
\* subtracted, is in the output
NothingLost ==
  /\ \A i \in DOMAIN delta.changed_keys :
       Output(delta.changed_keys[i]) = {delta.changed_vals[i]}
  /\ \A i \in DOMAIN delta.base.keys :
       delta.base.keys[i] \notin KeySet(delta.changed_keys)
                                  \cup KeySet(delta.missing)
         => Output(delta.base.keys[i]) = {delta.base.values[i]}

C32_SpuriousSubtraction ==
  delta.job = 1 =>
    \A k \in KeySet(delta.missing) \ KeySet(delta.base.keys) :
       LET d == Decompressed(Without(delta.missing, k))
       IN  /\ delta.ub = d.ub
           /\ delta.keys = d.keys
           /\ delta.values = d.values
           /\ NothingLost

\* ------------------------------------------------------------------------
\* C33: for sorted inputs, a key that is both in changed and in subtracted
\* is in the output of decompress with the value from changed, every other
\* entry of the output is what it is without the subtraction, and the
\* decoder does not crash.
\* ------------------------------------------------------------------------
\* the pairs of an output other than the pair of key k
Others(keys, values, k) ==
  {<<keys[i], values[i]>> : i \in {j \in DOMAIN keys : keys[j] # k}}

C33_ChangedBeatsSubtracted ==
  delta.job = 1 =>
    \A i \in DOMAIN delta.changed_keys :
       LET k == delta.changed_keys[i]
           d == Decompressed(Without(delta.missing, k))
       IN  k \in KeySet(delta.missing) =>
             /\ ~delta.ub
             /\ Output(k) = {delta.changed_vals[i]}
             /\ Others(delta.keys, delta.values, k)
                  = Others(d.keys, d.values, k)

\* ------------------------------------------------------------------------
\* C34: for ascending base, subtracted and changed key lists the merge loop
\* of decompress terminates, reads base.keys[bx], changed_keys[cx] and
\* missing[mx] inside the arrays only, and writes as many entries as it
\* allocated.
\* ------------------------------------------------------------------------
\* job->num_env_vars as line 892 computes it
Allocated ==
  Len(delta.base.keys) + Len(delta.changed_keys)
  - NumOverlap(delta.base, delta.changed_keys, 0) - Len(delta.missing)

C34_CursorsInBounds ==
  delta.job = 1 =>
    /\ ~delta.ub
    /\ Len(delta.keys) = Allocated
    /\ Len(delta.values) = Allocated

\* ------------------------------------------------------------------------
\* C35: after a successful open cur_job_id is -1; a successful
\* cram_file_next_job advances past exactly one record, adds 1 to
\* cur_job_id and sets cur_job_procs to the first field of the record; a
\* failed call leaves cur_job_id as it was; cram_file_has_more_jobs holds
\* iff cur_job_id < num_jobs - 1.  A caller that asks has_more before every
\* call gets the num_jobs records in file order and cur_job_id never
\* exceeds num_jobs - 1.
\* ------------------------------------------------------------------------
\* root is about to call cram_file_next_job
AtNextJob ==
  \/ proc[0].pc = "read_first"
  \/ proc[0].pc = "next_job" /\ cram_file_has_more_jobs(root.cram_file)

\* what the call does with the cursor, on any file
NextJobLaw ==
  LET f == root.cram_file
      n == cram_file_next_job(disk, f, proc[0].job_record)
      len == file_read_int(disk.bytes, f.pos)
  IN  /\ n.ret =>
           /\ n.file.cur_job_id = f.cur_job_id + 1
           /\ n.file.pos = f.pos + 4 + len.val
           /\ n.file.cur_job_record_size = len.val
           /\ SubSeq(n.job_record, 1, len.val)
                = SubSeq(disk.bytes, f.pos + 5, f.pos + 4 + len.val)
           /\ n.file.cur_job_procs
                = ntohl(SubSeq(disk.bytes, f.pos + 5, f.pos + 8))
      /\ ~n.ret => n.file.cur_job_id = f.cur_job_id

\* the cursor on the container the packer wrote: after record cur_job_id,
\* with more jobs iff there are more bytes
PackedCursor ==
  LET f == root.cram_file
  IN  /\ f.num_jobs = Len(jobs)
      /\ f.pos = RecordAt(jobs, f.cur_job_id + 2)
      /\ cram_file_has_more_jobs(f) <=> f.pos < Len(disk.bytes)
      /\ f.cur_job_id >= 0 =>
            /\ f.cur_job_procs = jobs[f.cur_job_id + 1].num_procs
            /\ f.cur_job_record_size = Len(RecordOf(jobs, f.cur_job_id + 1))
            /\ proc[0].pc \in {"next_job", "isend"} =>
                  SubSeq(proc[0].job_record, 1, f.cur_job_record_size)
                    = RecordOf(jobs, f.cur_job_id + 1)

ReaderCursor ==
  root.cram_file.fd = "open" =>
    /\ proc[0].pc = "check" => root.cram_file.cur_job_id = -1
    /\ root.cram_file.cur_job_id >= -1
    /\ root.cram_file.cur_job_id <= root.cram_file.num_jobs - 1
    /\ cram_file_has_more_jobs(root.cram_file)
         <=> root.cram_file.cur_job_id < root.cram_file.num_jobs - 1
    /\ AtNextJob => NextJobLaw
    /\ disk = PackedFile(jobs) => PackedCursor

\* root's call stores the cursor the call leaves
StoresCursor ==
  (AtNextJob /\ proc'[0].pc # proc[0].pc /\ proc'[0].pc # "killed") =>
    root'.cram_file
      = cram_file_next_job(disk, root.cram_file, proc[0].job_record).file

C35_ReaderCursor == []ReaderCursor /\ [][StoresCursor]_vars

\* root has read the last of several records and is told there are no more
C35_Witness ==
  /\ disk = PackedFile(jobs)
  /\ Len(jobs) > 1
  /\ proc[0].pc = "send_inactive"
  /\ root.cram_file.cur_job_id = Len(jobs) - 1
  /\ ~cram_file_has_more_jobs(root.cram_file)

\* ------------------------------------------------------------------------
\* C36: after cram_job_setup the mirror (cram_argc, cram_argv) is a copy of
\* the (argc, argv) that setup installed: the same count and the same
\* string at every index, index 0 included when "<exe>" was replaced by
\* the former argv[0]; iargc and getarg return the values of the mirror.
\* ------------------------------------------------------------------------
\* a string in a Fortran variable of var_len bytes, NUL-filled
Filled(str, var_len) ==
  [c \in 1..var_len |-> IF c <= Len(str) THEN str[c] ELSE 0]

C36_ArgumentMirror ==
  \A r \in Ranks :
     (PackedLaunch /\ proc[r].pc \in {"in_barrier", "app"}) =>
        /\ cram_iargc(os[r]) = os[r].argc
        /\ os[r].cram_argv = os[r].argv.v
        /\ \A i \in 1..(os[r].argc - 1) :
              cram_getarg(os[r], i, 4) = Filled(os[r].argv.v[i + 1], 4)

\* ------------------------------------------------------------------------
\* C37: on every active rank whose mode redirects to named files, rank 0 of
\* MPI_COMM_WORLD included, the output and error files are opened after the
\* rank has changed its working directory to its job's working_dir: they
\* are created in the directory of the sub-job.
\* ------------------------------------------------------------------------
\* the streams of rank r that are files named by cram
NamedStreams(r) == {f \in {os[r].stdout, os[r].stderr} : f.kind = "cram"}

C37_OutputAfterChdir ==
  \A r \in Ranks :
     \A f \in NamedStreams(r) :
        /\ proc[r].job_id >= 0
        /\ f.job = proc[r].job_id
        /\ f.dir = jobs[proc[r].job_id + 1].working_dir
        /\ f.dir # LaunchDir
        /\ os[r].cwd = f.dir

\* rank 0 of MPI_COMM_WORLD writes to files in job 0's directory and a
\* rank of another job to files in that job's directory
C37_Witness ==
  /\ NamedStreams(0) # {}
  /\ proc[0].pc = "app"
  /\ \E r \in Ranks :
       /\ proc[r].job_id = 1
       /\ jobs[2].working_dir # jobs[1].working_dir
       /\ Cardinality(NamedStreams(r)) = 2

\* ------------------------------------------------------------------------
\* C38: on every process and over every sequence of application finalize,
\* segmentation fault, non-zero exit and zero exit, PMPI_Finalize is called
\* at most once, and the crash handler and the exit handler call it only
\* when PMPI_Finalized reports that the runtime is not yet finalized.
\* ------------------------------------------------------------------------
\* the number of calls of PMPI_Finalize agrees with what PMPI_Finalized
\* reports and never exceeds one
FinalizedOnce ==
  \A r \in Ranks :
     /\ os[r].finalize_calls \in {0, 1}
     /\ os[r].finalized <=> os[r].finalize_calls = 1

\* a handler of rank r ends the application and calls PMPI_Finalize
HandlerFinalizes(r) ==
  /\ proc[r].pc = "app"
  /\ proc'[r].pc = "exited"
  /\ os'[r].finalize_calls # os[r].finalize_calls

\* a handler that finalizes found the runtime not finalized
HandlersAsk == \A r \in Ranks : HandlerFinalizes(r) => ~os[r].finalized

C38_FinalizeAtMostOnce == []FinalizedOnce /\ [][HandlersAsk]_vars

\* one application has called MPI_Finalize and still runs with both
\* handlers installed over a preserved error stream, another was ended by a
\* handler after exactly one PMPI_Finalize, by the application or by the
\* handler
C38_Witness ==
  \E r, q \in Ranks :
     /\ proc[r].pc = "app" /\ os[r].finalized /\ os[r].handlers
     /\ proc[r].original_stderr # NullStream
     /\ proc[q].pc = "exited" /\ os[q].handlers /\ os[q].log # <<>>
     /\ os[q].finalize_calls = 1

\* ------------------------------------------------------------------------
\* C39: cram_job_setup never removes a variable from the environment of the
\* process: every variable the process has before setup whose key is not in
\* the job's environment keeps its value, also when the job's record lists
\* the key as subtracted.
\* ------------------------------------------------------------------------
\* the keys of the job's environment
JobKeys(job) == {job.keys[i] : i \in DOMAIN job.keys}

\* the variables of environ other than the job's are in after with the
\* values they have in environ
KeepsOthers(environ, job, after) ==
  \A k \in DOMAIN environ \ JobKeys(job) :
     k \in DOMAIN after /\ after[k] = environ[k]

\* the environment of rank r changes in cram_job_setup only, and setup
\* keeps what the job does not set
EnvironKept(r) ==
  os'[r].environ # os[r].environ =>
     /\ proc[r].pc = "setup"
     /\ KeepsOthers(os[r].environ, proc[r].cram_job, os'[r].environ)

\* no variable is ever lost
NoneRemoved(r) == DOMAIN os[r].environ \subseteq DOMAIN os'[r].environ

C39_SetupOnlyAdds ==
  [][\A r \in Ranks : EnvironKept(r) /\ NoneRemoved(r)]_vars

\* a rank of job 1 = { X=p } has run setup; job 0 has { X=q, Y=q }, so
\* record 1 subtracts Y: the rank has W=l and Y=l of its launch environment
\* and X=p of the job
C39_Witness ==
  \E r \in Ranks :
     /\ proc[r].job_id = 1 /\ proc[r].pc = "app"
     /\ <<89>> \in JobKeys(jobs[1]) /\ <<89>> \notin JobKeys(jobs[2])
     /\ os[r].environ =
          (<<87>> :> <<108>>) @@ (<<88>> :> <<112>>) @@ (<<89>> :> <<108>>)

\* ------------------------------------------------------------------------
\* C40: a non-root rank outside job 0 posts the receive of the record, and
\* decompresses a record against first_job, only if the job id it received
\* is not negative; a rank that received -1 performs no record receive and
\* no decompression.
\* ------------------------------------------------------------------------
\* a rank that waits for a record has received an id that is not negative
RecordReceiveNeedsId(r) == proc[r].pc = "recv_record" => proc[r].job_id >= 0

\* a rank that comes out of the receives with a negative id holds no
\* decompressed job
NoJobWithoutId(r) ==
  (proc[r].pc = "split" /\ proc[r].job_id < 0) => proc[r].cram_job = NoJob

C40_NoDecodeOnMinusOne ==
  \A r \in Ranks \ {0} : RecordReceiveNeedsId(r) /\ NoJobWithoutId(r)

====
